---- MODULE Spec2Model ----
(***************************************************************************)
(* Model of claude-core: the in-memory SessionStore (sessions, message     *)
(* records, forks, checkpoints) and the StatelessClaudeSession.execute()   *)
(* state machine (prompt replay, child process, timeout escalation).       *)
(*                                                                         *)
(* JavaScript objects that are reachable through more than one reference   *)
(* are kept in heaps: messageIndex holds every MessageWithMetadata object  *)
(* by its id, arrays holds every childMessageIds array by reference, and   *)
(* histories holds every context.history array by reference.  A shallow    *)
(* copy ({...msg}) copies the references, exactly as the code does.        *)
(*                                                                         *)
(* Text is a sequence of tokens: "NL" is a newline, "SP" a space, role     *)
(* labels such as "Human:" are one token each, other tokens are plain      *)
(* text.                                                                   *)
(***************************************************************************)
EXTENDS Integers, Sequences, FiniteSets, TLC

\* ---------------------------------------------------------------- bounds
NumUserSessions == 1
MaxMessages == 5
MaxForks == 1
MaxCheckpoints == 1
MaxSaves == 1
MaxCalls == 2
MaxInFlight == 1
MaxTextLen == 5
MaxPromptWords == 2
MaxRestrictions == 2
MaxCacheEntries == 2
MaxTime == 2
MaxSiblings == 2
MaxSiblingMessages == 6
MaxClaudeSessions == 2
MaxPieces == 3
MaxIds == 4
MaxParallel == 2
MaxHistory == 12
MaxSystemMessages == 2

\* ------------------------------------------------------------- constants
\* "no value": undefined / omitted argument / '' for ids and references
None == 0

UserSessionIds == 1..NumUserSessions
\* ids minted by forkSession are fresh (Date.now() + Math.random())
ForkSessionId(k) == NumUserSessions + k
SessionIds == 1..(NumUserSessions + MaxForks)

Roles == {"user", "assistant", "system"}
\* the store never inspects a message: direct addMessage calls pass the n-th
\* message of a fixed conversation, so that every stored message is distinct
ContentTokens == <<"a", "b", "c", "d", "e", "f", "g", "h">>
StoreMessages(n) ==
  {[role |-> IF n % 2 = 1 THEN "user" ELSE "assistant",
    content |-> <<ContentTokens[((n - 1) % Len(ContentTokens)) + 1]>>]}

VARIABLES
  sessions,          \* SessionStore.sessions: id -> StoredSession
  messageIndex,      \* SessionStore.messageIndex: id -> MessageWithMetadata
  arrays,            \* heap of childMessageIds arrays
  histories,         \* heap of context.history arrays
  messageIdCounter,  \* SessionStore.messageIdCounter
  checkpoints,       \* SessionStore.checkpoints: id -> SessionSnapshot
  forkSeq,           \* number of fork session ids minted so far
  saveSeq,           \* number of direct saveSession calls so far
  lastFork,          \* the arguments and result of the last successful forkSession
  objs,              \* the StatelessClaudeSession objects, by session id
  calls,             \* the execute() calls whose closure is still alive, by number
  callSeq,           \* the number of execute() calls made so far
  responseCache,     \* SessionStore.responseCache: session id -> CachedResponse[]
  now,               \* the clock Date.now() reads
  cacheLog,          \* every entry cacheResponse has stored so far
  tools,             \* ToolManager.tools: the names of the registered tools
  restrictions,      \* ToolManager.restrictions
  sessionTools,      \* the tools option each Claude.createSession call was given
  claudeSessions,    \* Claude.sessions: the ids the map holds
  removedIds,        \* the ids destroySession and cleanup have removed so far
  fnInput,           \* the argument of the function under study
  fnOutput           \* its value, once it has been applied

storeVars == <<sessions, messageIndex, arrays, histories, messageIdCounter,
               checkpoints, forkSeq, saveSeq, lastFork>>
execVars == <<objs, calls, callSeq>>
cacheVars == <<responseCache, now, cacheLog>>
toolVars == <<tools, restrictions, sessionTools, claudeSessions, removedIds>>
pureVars == <<fnInput, fnOutput>>
auxVars == <<cacheVars, toolVars, pureVars>>
vars == <<storeVars, execVars, auxVars>>

\* the store as one value, so that calls compose as they do in the code
Store == [sessions |-> sessions, messageIndex |-> messageIndex,
          arrays |-> arrays, histories |-> histories,
          messageIdCounter |-> messageIdCounter]

Last(s) == s[Len(s)]
Prefix(s, n) == SubSeq(s, 1, n)

\* Array.prototype.findIndex(m => m.id === id) + 1, 0 when absent
FindIndexPlus1(ids, id) ==
  IF \E i \in 1..Len(ids) : ids[i] = id
    THEN CHOOSE i \in 1..Len(ids) : ids[i] = id /\ \A j \in 1..(i-1) : ids[j] # id
    ELSE 0

\* allocate a new array on a heap; its reference is the new length
Alloc(heap, value) == Append(heap, value)

\* ------------------------------------------------------------ saveSession
\* context = NoContext models an omitted context (the store makes
\* {history: []}); otherwise the caller's context object [systemPrompt,
\* history] is kept, its history being a reference or None (undefined).
NoContext == [systemPrompt |-> <<>>, history |-> -1]
EmptyContext == [systemPrompt |-> <<>>, history |-> None]

\* saveSession has no failing path: it returns Result.success whatever
\* parentId is
saveSessionOk(st, sessionId, parentId) == TRUE

saveSession(st, sessionId, parentId, context) ==
  LET histories1 == IF context = NoContext THEN Alloc(st.histories, <<>>)
                                           ELSE st.histories
      ctx == IF context = NoContext
               THEN [systemPrompt |-> <<>>, history |-> Len(histories1)]
               ELSE context
      session == [id |-> sessionId, parentId |-> parentId, childIds |-> <<>>,
                  context |-> ctx, messages |-> <<>>, forkPoints |-> <<>>,
                  checkpoints |-> {}]
      sessions1 == (sessionId :> session) @@ st.sessions
      sessions2 == IF parentId # None /\ parentId \in DOMAIN sessions1
                     THEN [sessions1 EXCEPT ![parentId].childIds =
                                              Append(@, sessionId)]
                     ELSE sessions1
  IN [st EXCEPT !.sessions = sessions2, !.histories = histories1]

\* ------------------------------------------------------------- addMessage
addMessageOk(st, sessionId) == sessionId \in DOMAIN st.sessions

\* a variant of nextMessageId that numbers the messages of each session
nextMessageIdOfSession(st, sessionId) ==
  Len(st.sessions[sessionId].messages) + 1

\* `msg-${sessionId}-${++this.messageIdCounter}`: the number after the last
\* hyphen decides the id, so the id is kept as that number
nextMessageId(st, sessionId) == st.messageIdCounter + 1

addMessage(st, sessionId, message) ==
  IF ~addMessageOk(st, sessionId) THEN st
  ELSE
  LET session == st.sessions[sessionId]
      lastMessage == IF Len(session.messages) > 0
                       THEN Last(session.messages) ELSE None
      n == nextMessageId(st, sessionId)
      arrays1 == Alloc(st.arrays, <<>>)
      messageWithMeta ==
        [id |-> n, sessionId |-> sessionId,
         role |-> message.role, content |-> message.content,
         parentMessageId |-> lastMessage,
         childMessageIds |-> Len(arrays1),
         isForkPoint |-> FALSE,
         metadata |-> n]
      arrays2 == IF lastMessage # None
                   THEN [arrays1 EXCEPT
                           ![st.messageIndex[lastMessage].childMessageIds] =
                             Append(@, n)]
                   ELSE arrays1
      histories1 == IF session.context.history = None
                      THEN Alloc(st.histories, <<>>) ELSE st.histories
      historyRef == IF session.context.history = None
                      THEN Len(histories1) ELSE session.context.history
      histories2 == [histories1 EXCEPT ![historyRef] = Append(@, message)]
  IN [st EXCEPT
        !.messageIdCounter = n,
        !.arrays = arrays2,
        !.histories = histories2,
        !.messageIndex = (n :> messageWithMeta) @@ @,
        !.sessions = [@ EXCEPT ![sessionId].messages = Append(@, n),
                               ![sessionId].context.history = historyRef]]

\* a variant of forkIndexOf that looks the message up in the store's index of
\* all messages instead of the source session's own list
forkIndexOfAnyMessage(sourceSession, atMessageId) ==
  IF atMessageId # None
    THEN IF FindIndexPlus1(sourceSession.messages, atMessageId) # 0
           THEN FindIndexPlus1(sourceSession.messages, atMessageId)
           ELSE IF atMessageId \in 1..messageIdCounter
                  THEN Len(sourceSession.messages)
                  ELSE 0
    ELSE Len(sourceSession.messages)

\* ------------------------------------------------------------ forkSession
\* forkIndex: session.messages.length when atMessageId is omitted, else
\* findIndex + 1 (0: the message is not in the source session's own list)
forkIndexOf(sourceSession, atMessageId) ==
  IF atMessageId # None
    THEN FindIndexPlus1(sourceSession.messages, atMessageId)
    ELSE Len(sourceSession.messages)

forkSessionOk(st, fromSessionId, atMessageId) ==
  /\ fromSessionId \in DOMAIN st.sessions
  /\ atMessageId # None =>
       forkIndexOf(st.sessions[fromSessionId], atMessageId) # 0

\* a variant of forkedMessages that copies one message less
forkedMessagesShort(st, sourceSession, forkIndex, newSessionId) ==
  [i \in 1..(IF forkIndex > 0 THEN forkIndex - 1 ELSE 0) |->
     [st.messageIndex[sourceSession.messages[i]] EXCEPT
        !.sessionId = newSessionId,
        !.id = st.messageIdCounter + i]]

\* sourceSession.messages.slice(0, forkIndex).map(msg => ({...msg, sessionId,
\* id})): shallow copies, so childMessageIds and metadata keep the source
\* record's references and parentMessageId keeps the source record's value
forkedMessages(st, sourceSession, forkIndex, newSessionId) ==
  [i \in 1..forkIndex |->
     [st.messageIndex[sourceSession.messages[i]] EXCEPT
        !.sessionId = newSessionId,
        !.id = st.messageIdCounter + i]]

\* a variant of markForkPoint that marks every message of the source
markForkPointAll(index, sourceSession, messageId) ==
  [m \in DOMAIN index |->
     IF messageId # None /\ m \in DOMAIN index
        /\ \E i \in 1..Len(sourceSession.messages) :
              sourceSession.messages[i] = m
       THEN [index[m] EXCEPT !.isForkPoint = TRUE]
       ELSE index[m]]

\* originalMessage.isForkPoint = true on messageIndex.get(forkPoint.messageId)
markForkPoint(index, sourceSession, messageId) ==
  IF messageId # None /\ messageId \in DOMAIN index
    THEN [index EXCEPT ![messageId].isForkPoint = TRUE]
    ELSE index

forkSession(st, fromSessionId, atMessageId, newSessionId) ==
  IF ~forkSessionOk(st, fromSessionId, atMessageId) THEN st
  ELSE
  LET sourceSession == st.sessions[fromSessionId]
      forkIndex == forkIndexOf(sourceSession, atMessageId)
      forked == forkedMessages(st, sourceSession, forkIndex, newSessionId)
      counter1 == st.messageIdCounter + Len(forked)
      forkPoint ==
        [messageId |-> IF atMessageId # None THEN atMessageId
                       ELSE IF forkIndex > 0
                              THEN sourceSession.messages[forkIndex]
                              ELSE None,
         originalSessionId |-> fromSessionId,
         forkedSessionIds |-> <<newSessionId>>]
      index1 == markForkPoint(st.messageIndex, sourceSession,
                              forkPoint.messageId)
      histories1 ==
        Alloc(st.histories,
              IF sourceSession.context.history = None THEN <<>>
              ELSE LET h == st.histories[sourceSession.context.history]
                   IN  Prefix(h, IF forkIndex < Len(h) THEN forkIndex
                                                       ELSE Len(h)))
      forkedContext == [sourceSession.context EXCEPT
                          !.history = Len(histories1)]
      st1 == saveSession([st EXCEPT !.messageIndex = index1,
                                    !.histories = histories1,
                                    !.messageIdCounter = counter1],
                         newSessionId, fromSessionId, forkedContext)
      sessions1 ==
        [st1.sessions EXCEPT
           ![newSessionId].messages = [i \in 1..Len(forked) |-> forked[i].id],
           ![newSessionId].forkPoints =
              Append(sourceSession.forkPoints, forkPoint),
           ![fromSessionId].forkPoints = Append(@, forkPoint)]
      index2 == [m \in DOMAIN st1.messageIndex
                       \cup {forked[i].id : i \in 1..Len(forked)} |->
                   IF \E i \in 1..Len(forked) : forked[i].id = m
                     THEN forked[m - st.messageIdCounter]
                     ELSE st1.messageIndex[m]]
  IN [st1 EXCEPT !.sessions = sessions1, !.messageIndex = index2]

\* ------------------------------------------------- getConversationHistory
\* the message objects of a session as the caller reads them: every field,
\* with the childMessageIds array dereferenced
RecordValue(index, arrs, m) ==
  [index[m] EXCEPT !.childMessageIds = arrs[index[m].childMessageIds]]

getConversationHistory(st, sessionId) ==
  [i \in 1..Len(st.sessions[sessionId].messages) |->
     RecordValue(st.messageIndex, st.arrays, st.sessions[sessionId].messages[i])]

getConversationHistoryOk(st, sessionId) == sessionId \in DOMAIN st.sessions

RoleContent(recs) ==
  [i \in 1..Len(recs) |-> [role |-> recs[i].role, content |-> recs[i].content]]

\* ------------------------------------------------------- createCheckpoint
\* the snapshot copies the context object and the messages array one level
\* deep: it keeps the history reference and the record ids
createCheckpointOk(st, sessionId) == sessionId \in DOMAIN st.sessions

createCheckpoint(cps, st, sessionId, name, checkpointId) ==
  (checkpointId :> [id |-> checkpointId, name |-> name,
                    sessionId |-> sessionId,
                    context |-> st.sessions[sessionId].context,
                    messages |-> st.sessions[sessionId].messages]) @@ cps

\* restoreCheckpoint returns the stored snapshot object; what the caller reads
\* through it: the context with the history array it refers to, and the
\* records its message list refers to
restoreCheckpointOk(cps, checkpointId) == checkpointId \in DOMAIN cps

restoreCheckpoint(cps, st, checkpointId) ==
  LET checkpoint == cps[checkpointId]
  IN [id |-> checkpoint.id, name |-> checkpoint.name,
      sessionId |-> checkpoint.sessionId,
      context |->
        [systemPrompt |-> checkpoint.context.systemPrompt,
         history |-> IF checkpoint.context.history \in 1..Len(st.histories)
                       THEN st.histories[checkpoint.context.history]
                       ELSE <<>>],
      messages |->
        [i \in 1..Len(checkpoint.messages) |->
           RecordValue(st.messageIndex, st.arrays, checkpoint.messages[i])]]

\* ------------------------------------------------------------------ text
NL == "NL"
SP == "SP"
WhiteSpace == {NL, SP}

\* String.prototype.trim
RECURSIVE TrimStart(_)
TrimStart(s) ==
  IF Len(s) > 0 /\ s[1] \in WhiteSpace THEN TrimStart(Tail(s)) ELSE s

RECURSIVE TrimEnd(_)
TrimEnd(s) ==
  IF Len(s) > 0 /\ Last(s) \in WhiteSpace
    THEN TrimEnd(Prefix(s, Len(s) - 1)) ELSE s

Trim(s) == TrimEnd(TrimStart(s))

\* String.prototype.indexOf: position of the first occurrence counted from 0,
\* -1 when there is none
IndexOf(s, pat) ==
  LET At(i) == SubSeq(s, i, i + Len(pat) - 1) = pat
      hits == {i \in 1..(Len(s) - Len(pat) + 1) : At(i)}
  IN IF hits = {} THEN -1
     ELSE (CHOOSE i \in hits : \A j \in hits : i <= j) - 1

Includes(s, pat) == IndexOf(s, pat) # -1
StartsWith(s, pat) == Len(pat) <= Len(s) /\ Prefix(s, Len(pat)) = pat
\* String.prototype.substring(from) and substring(0, to)
SubstringFrom(s, from) == SubSeq(s, from + 1, Len(s))
SubstringTo(s, to) == Prefix(s, to)

\* Array.prototype.join
RECURSIVE Join(_, _)
Join(parts, sep) ==
  IF Len(parts) = 0 THEN <<>>
  ELSE IF Len(parts) = 1 THEN parts[1]
  ELSE parts[1] \o sep \o Join(Tail(parts), sep)

\* String.prototype.toLowerCase on the tokens that have an upper-case letter
ToLowerCaseToken(t) ==
  CASE t = "Implement" -> "implement"
    [] t = "Yes" -> "yes"
    [] t = "Run" -> "run"
    [] OTHER -> t

ToLowerCase(s) == [i \in 1..Len(s) |-> ToLowerCaseToken(s[i])]

\* the number of characters of a token; "BIG" is a text of 1001 characters
TokenLength(t) ==
  CASE t = "BIG" -> 1001
    [] t \in {"Assistant:", "assistant:"} -> 10
    [] t \in {"Question:"} -> 9
    [] t \in {"Human:", "human:"} -> 6
    [] t \in {"H:", "A:", "h:", "a:", "Q:", "q:"} -> 2
    [] t = "<tool_use>" -> 10
    [] t = "</tool_use>" -> 11
    [] OTHER -> 1

\* String.prototype.length
RECURSIVE Length(_)
Length(s) == IF Len(s) = 0 THEN 0 ELSE TokenLength(s[1]) + Length(Tail(s))

\* ----------------------------------------------------------- OutputParser
ToolUseOpen == <<"<tool_use>">>
ToolUseClose == <<"</tool_use>">>

\* buffer.replace(/<tool_use>[\s\S]*?<\/tool_use>/g, ''): every block from an
\* opening tag to the nearest closing tag after it is removed, left to right
RECURSIVE RemoveToolUses(_)
RemoveToolUses(s) ==
  LET open == IndexOf(s, ToolUseOpen)
      rest == SubstringFrom(s, open + 1)
      close == IndexOf(rest, ToolUseClose)
  IN IF open = -1 \/ close = -1 THEN s
     ELSE SubstringTo(s, open) \o RemoveToolUses(SubstringFrom(rest, close + 1))

extractContent(buffer) == Trim(RemoveToolUses(buffer))

\* the contents of the tool_use blocks, left to right
RECURSIVE ToolUseBlocks(_)
ToolUseBlocks(s) ==
  LET open == IndexOf(s, ToolUseOpen)
      rest == SubstringFrom(s, open + 1)
      close == IndexOf(rest, ToolUseClose)
  IN IF open = -1 \/ close = -1 THEN <<>>
     ELSE <<SubstringTo(rest, close)>>
            \o ToolUseBlocks(SubstringFrom(rest, close + 1))

\* /<tool_name>(.*?)<\/tool_name>/: the name may not span a line break
ToolNameMatches(content) ==
  \E i \in 1..Len(content), j \in 1..Len(content) :
    /\ i < j
    /\ content[i] = "<tool_name>"
    /\ content[j] = "</tool_name>"
    /\ \A k \in (i+1)..(j-1) : content[k] # NL

\* /<parameters>([\s\S]*?)<\/parameters>/, the captured text trimmed
ParametersMatch(content) ==
  LET open == IndexOf(content, <<"<parameters>">>)
      rest == SubstringFrom(content, open + 1)
      close == IndexOf(rest, <<"</parameters>">>)
  IN IF open = -1 \/ close = -1 THEN <<"no match">>
     ELSE Trim(SubstringTo(rest, close))

\* JSON.parse succeeds on the token "{}" and throws on any other text
ParsesAsJson(text) == text = <<"{}">>

\* toolNameMatch[1].trim(): the text between the first <tool_name> that has
\* a </tool_name> after it on its line and that closing tag
ToolNameOf(content) ==
  LET starts == {i \in 1..Len(content) :
                   /\ content[i] = "<tool_name>"
                   /\ \E j \in (i+1)..Len(content) :
                        /\ content[j] = "</tool_name>"
                        /\ \A k \in (i+1)..(j-1) :
                             content[k] \notin {NL, "</tool_name>"}}
      i == CHOOSE a \in starts : \A b \in starts : a <= b
      rest == SubstringFrom(content, i)
  IN Trim(SubstringTo(rest, IndexOf(rest, <<"</tool_name>">>)))

\* the ToolUse record of a block (the timestamp is left out)
ToolUseOf(content) ==
  [toolName |-> ToolNameOf(content), parameters |-> ParametersMatch(content)]

ToolUsesOf(contents) == [i \in 1..Len(contents) |-> ToolUseOf(contents[i])]

\* a variant of parseToolUses that does not look at the parameters
parseToolUsesNamed(buffer) ==
  ToolUsesOf(SelectSeq(ToolUseBlocks(buffer), ToolNameMatches))

\* parseToolUses: one entry for every block that has a tool name and
\* parameters that parse; malformed blocks are skipped
parseToolUses(buffer) ==
  ToolUsesOf(SelectSeq(ToolUseBlocks(buffer),
                       LAMBDA content :
                         /\ ToolNameMatches(content)
                         /\ ParsesAsJson(ParametersMatch(content))))

\* ------------------------------------------------- cleaning of the output
\* lines 340-356: an output of more than 1000 characters that holds an H: or
\* A: marker is cut at the earliest marker that is not at its start
EchoMarkers ==
  << <<NL, NL, "H:">>, <<NL, NL, "Human:">>, <<NL, NL, "A:">>,
     <<NL, NL, "Assistant:">>, <<NL, "H:">>, <<NL, "Human:">>,
     <<NL, "A:">>, <<NL, "Assistant:">> >>

truncateEcho(cleanOutput) ==
  IF /\ Length(cleanOutput) > 1000
     /\ \/ Includes(cleanOutput, <<NL, NL, "H:">>)
        \/ Includes(cleanOutput, <<NL, NL, "A:">>)
        \/ Includes(cleanOutput, <<NL, "H:">>)
        \/ Includes(cleanOutput, <<NL, "A:">>)
    THEN LET found == {IndexOf(cleanOutput, EchoMarkers[k]) :
                         k \in 1..Len(EchoMarkers)}
             cuts == {i \in found : i > 0 /\ i < Len(cleanOutput)}
         IN IF cuts = {} THEN cleanOutput
            ELSE Trim(SubstringTo(cleanOutput,
                        CHOOSE i \in cuts : \A j \in cuts : i <= j))
    ELSE cleanOutput

\* lines 377-390: the first marker of the list, in list order, that occurs
\* after position 0 cuts the output; no later marker is looked at
conversationMarkers ==
  << <<NL, NL, "H:">>, <<NL, NL, "Human:">>, <<NL, NL, "A:">>,
     <<NL, NL, "Assistant:">>, <<NL, NL, "h:">>, <<NL, NL, "a:">>,
     <<NL, "H:">>, <<NL, "Human:">>, <<NL, "A:">>, <<NL, "Assistant:">>,
     <<NL, NL, "Q:">>, <<NL, NL, "Question:">>, <<NL, NL, "q:">> >>

RECURSIVE cutAtMarker(_, _)
cutAtMarker(finalOutput, markers) ==
  IF Len(markers) = 0 THEN finalOutput
  ELSE LET markerIndex == IndexOf(finalOutput, Head(markers))
       IN IF markerIndex > 0 THEN Trim(SubstringTo(finalOutput, markerIndex))
          ELSE cutAtMarker(finalOutput, Tail(markers))

\* lines 393-404: the first prefix of the list the output starts with is
\* removed, once
rolePrefixes ==
  << <<"Assistant:">>, <<"Human:">>, <<"A:">>, <<"H:">>,
     <<"assistant:">>, <<"human:">>, <<"a:">>, <<"h:">>,
     <<"Assistant:", SP>>, <<"Human:", SP>>, <<"A:", SP>>, <<"H:", SP>>,
     <<"I'll respond only to your current question.">> >>

RECURSIVE stripRolePrefix(_, _)
stripRolePrefix(finalOutput, prefixes) ==
  IF Len(prefixes) = 0 THEN finalOutput
  ELSE IF StartsWith(finalOutput, Head(prefixes))
         THEN Trim(SubstringFrom(finalOutput, Len(Head(prefixes))))
  ELSE stripRolePrefix(finalOutput, Tail(prefixes))

\* cleanOutput: the text execute() returns; finalOutput: the text it stores
cleanOutputOf(output) == truncateEcho(extractContent(output))

finalOutputOf(output) ==
  Trim(stripRolePrefix(cutAtMarker(cleanOutputOf(output), conversationMarkers),
                       rolePrefixes))

\* -------------------------------------------------- buildContextualPrompt
\* parts.join('\n'): the system prompt and an empty line when there is one;
\* for each replayed message its line (none for a system message) and an
\* empty line; the new user message, an empty line and the cue
RECURSIVE historyParts(_)
historyParts(messages) ==
  IF Len(messages) = 0 THEN <<>>
  ELSE LET msg == Head(messages)
           line == IF msg.role = "user"
                     THEN << <<"Human:", SP>> \o msg.content >>
                   ELSE IF msg.role = "assistant"
                     THEN << <<"Assistant:", SP>> \o msg.content >>
                   ELSE <<>>
       IN line \o << <<>> >> \o historyParts(Tail(messages))

\* a variant of buildContextualPrompt that replays no assistant message
buildContextualPromptNoReplies(systemPrompt, messages, userMessage) ==
  Join((IF Len(systemPrompt) > 0
          THEN << <<"System:", SP>> \o systemPrompt, <<>> >> ELSE <<>>)
       \o historyParts(SelectSeq(messages, LAMBDA m : m.role # "assistant"))
       \o << <<"Human:", SP>> \o userMessage, <<>>, <<"Assistant:">> >>,
       <<NL>>)

\* buildContextualPrompt(userMessage) on this.context.systemPrompt and
\* this.messages
buildContextualPrompt(systemPrompt, messages, userMessage) ==
  Join((IF Len(systemPrompt) > 0
          THEN << <<"System:", SP>> \o systemPrompt, <<>> >> ELSE <<>>)
       \o historyParts(messages)
       \o << <<"Human:", SP>> \o userMessage, <<>>, <<"Assistant:">> >>,
       <<NL>>)

\* ------------------------------------------------------- determineTimeout
STANDARD_REQUEST == 120000
QUICK_REQUEST == 30000
COMPLEX_REQUEST == 300000
TOOL_HEAVY_REQUEST == 600000
KILL_GRACE_PERIOD == 5000
TEXT_GENERATION == STANDARD_REQUEST
CODE_GENERATION == COMPLEX_REQUEST
FILE_OPERATIONS == COMPLEX_REQUEST
SYSTEM_COMMANDS == TOOL_HEAVY_REQUEST
QUICK_RESPONSE == QUICK_REQUEST

\* ExecuteOptions; hasTimeout = FALSE models timeout: undefined, and
\* operationType = "" an omitted hint
NoOptions == [hasTimeout |-> FALSE, timeout |-> 0, operationType |-> "",
              tools |-> <<>>]

IncludesAny(s, pats) == \E p \in pats : Includes(s, p)

\* a variant of determineTimeout that reads the prompt before the hint
determineTimeoutPromptFirst(prompt, options, defaultTimeout) ==
  LET lowerPrompt == ToLowerCase(prompt)
  IN IF options.hasTimeout THEN options.timeout
     ELSE IF IncludesAny(lowerPrompt,
               {<<"yes", SP, "or", SP, "no">>, <<"true", SP, "or", SP, "false">>,
                <<"single", SP, "word">>})
       THEN QUICK_RESPONSE
     ELSE IF IncludesAny(lowerPrompt,
               {<<"write", SP, "code">>, <<"implement">>, <<"function">>,
                <<"class">>, <<"debug">>})
       THEN CODE_GENERATION
     ELSE IF IncludesAny(lowerPrompt,
               {<<"edit">>, <<"create", SP, "file">>, <<"modify">>,
                <<"write", SP, "to">>})
       THEN FILE_OPERATIONS
     ELSE IF IncludesAny(lowerPrompt,
               {<<"run">>, <<"execute">>, <<"bash">>, <<"command">>})
       THEN SYSTEM_COMMANDS
     ELSE IF options.operationType = "quick" THEN QUICK_RESPONSE
     ELSE IF options.operationType = "text" THEN TEXT_GENERATION
     ELSE IF options.operationType = "code" THEN CODE_GENERATION
     ELSE IF options.operationType = "file" THEN FILE_OPERATIONS
     ELSE IF options.operationType = "system" THEN SYSTEM_COMMANDS
     ELSE IF Len(options.tools) > 0 THEN COMPLEX_REQUEST
     ELSE defaultTimeout

\* determineTimeout(prompt, options) with this.defaultTimeout
determineTimeout(prompt, options, defaultTimeout) ==
  LET lowerPrompt == ToLowerCase(prompt)
  IN IF options.hasTimeout THEN options.timeout
     ELSE IF options.operationType = "quick" THEN QUICK_RESPONSE
     ELSE IF options.operationType = "text" THEN TEXT_GENERATION
     ELSE IF options.operationType = "code" THEN CODE_GENERATION
     ELSE IF options.operationType = "file" THEN FILE_OPERATIONS
     ELSE IF options.operationType = "system" THEN SYSTEM_COMMANDS
     ELSE IF IncludesAny(lowerPrompt,
               {<<"yes", SP, "or", SP, "no">>, <<"true", SP, "or", SP, "false">>,
                <<"single", SP, "word">>})
       THEN QUICK_RESPONSE
     ELSE IF IncludesAny(lowerPrompt,
               {<<"write", SP, "code">>, <<"implement">>, <<"function">>,
                <<"class">>, <<"debug">>})
       THEN CODE_GENERATION
     ELSE IF IncludesAny(lowerPrompt,
               {<<"edit">>, <<"create", SP, "file">>, <<"modify">>,
                <<"write", SP, "to">>})
       THEN FILE_OPERATIONS
     ELSE IF IncludesAny(lowerPrompt,
               {<<"run">>, <<"execute">>, <<"bash">>, <<"command">>})
       THEN SYSTEM_COMMANDS
     ELSE IF Len(options.tools) > 0 THEN COMPLEX_REQUEST
     ELSE defaultTimeout

\* ------------------------------------------- StatelessClaudeSession object
RECURSIVE addMessages(_, _, _)
addMessages(st, sessionId, msgs) ==
  IF Len(msgs) = 0 THEN st
  ELSE addMessages(addMessage(st, sessionId, Head(msgs)), sessionId, Tail(msgs))

\* the constructor: this.messages is a copy of context.history, the session
\* is registered with the context object and every message is added to it
constructorMessages(st, context) ==
  IF context.history # None THEN st.histories[context.history] ELSE <<>>

constructorStore(st, id, parentId, context) ==
  addMessages(saveSession(st, id, parentId, context), id,
              constructorMessages(st, context))

constructorObject(st, id, parentId, context) ==
  [id |-> id, parentId |-> parentId, status |-> "active",
   systemPrompt |-> context.systemPrompt,
   messages |-> constructorMessages(st, context),
   messageCount |-> Len(constructorMessages(st, context)),
   toolUseCount |-> 0,
   defaultTimeout |-> STANDARD_REQUEST]

\* ----------------------------------------------------------- IResult values
Pending == [kind |-> "pending", error |-> "", output |-> <<>>,
            toolUses |-> <<>>, timeout |-> 0, code |-> 0, signal |-> "",
            stderr |-> <<>>]
\* Result.success({output, toolUses, metadata})
Success(output, toolUses) ==
  [Pending EXCEPT !.kind = "success", !.output = output,
                  !.toolUses = toolUses]
\* Result.fail of the error spawn threw or the 'error' event carried
FailSpawn == [Pending EXCEPT !.kind = "fail", !.error = "spawn"]
\* 'Claude request timed out after ${timeout}ms. The operation was terminated
\* with signal: ${signal || 'SIGTERM'}'
FailTimeout(timeout, signal) ==
  [Pending EXCEPT !.kind = "fail", !.error = "timeout", !.timeout = timeout,
                  !.signal = IF signal = "" THEN "SIGTERM" ELSE signal]
\* 'Claude exited with code ${code}: ${error || 'No error output captured'}'
FailExit(code, error) ==
  [Pending EXCEPT !.kind = "fail", !.error = "exit", !.code = code,
                  !.stderr = IF Len(error) = 0
                               THEN <<"No error output captured">> ELSE error]

\* the message of the Error a failure result carries
errorMessage(result) ==
  IF result.error = "exit"
    THEN <<"Claude exited with code", SP, ToString(result.code), ":", SP>>
           \o result.stderr
  ELSE IF result.error = "timeout"
    THEN <<"Claude request timed out after", SP, ToString(result.timeout),
           "ms.", SP, "The operation was terminated with signal:", SP,
           result.signal>>
  ELSE IF result.error = "spawn" THEN <<"spawn claude ENOENT">>
  ELSE <<>>

\* `${this.claudePath} ${args.join(' ')}` with no tool restrictions
invokedCommand ==
  <<"claude", SP, "-p", SP, "--model", SP, "DEFAULT_CLAUDE_MODEL">>

\* a promise settles once: a later resolve() has no effect
resolve(call, result) ==
  IF call.result.kind = "pending" THEN [call EXCEPT !.result = result] ELSE call

\* ------------------------------------------------------------ the child
\* The child is the process spawn() starts.  spawn() either throws, or fails
\* asynchronously (Node then emits 'error' and no 'exit'), or starts a
\* process that writes to stdout and stderr and ends with an exit code or by
\* a signal it was sent.  A kill() that fails on a live child of the session
\* (EPERM) is not part of this environment; SpecErrorExit adds it.
\* ChildProcess.kill(signal): while the child's exit has not been handled
\* the signal is delivered, kill() returns true and the killed flag is set;
\* afterwards kill() returns false and changes nothing
kill(call, signal) ==
  IF call.pc = "running" /\ call.spawned = "ok"
    THEN [call EXCEPT !.killed = TRUE, !.signals = Append(@, signal)]
    ELSE call

\* a variant of clearTimeout that leaves the timer pending
clearTimeoutKept(handle) == handle

\* clearTimeout(handle) when the handle is set
clearTimeout(handle) == IF handle = "armed" THEN "cleared" ELSE handle

\* ----------------------------------------------------- the store: actions
NoFork == [fromSessionId |-> None, atMessageId |-> None,
           newSessionId |-> None]

\* no cache entry, no tool, no rule, no function applied
NoOutput == [done |-> FALSE, value |-> <<>>]

CacheInit ==
  /\ responseCache = <<>>
  /\ now = 0
  /\ cacheLog = {}

ToolInit ==
  /\ tools = {}
  /\ restrictions = <<>>
  /\ sessionTools = <<>>
  /\ claudeSessions = {}
  /\ removedIds = {}

PureInit ==
  /\ fnInput = <<>>
  /\ fnOutput = NoOutput

AuxInit == CacheInit /\ ToolInit /\ PureInit

\* new SessionStore(), no session object, no call
EmptyStore ==
  /\ sessions = <<>>
  /\ messageIndex = <<>>
  /\ arrays = <<>>
  /\ histories = <<>>
  /\ messageIdCounter = 0
  /\ checkpoints = <<>>
  /\ forkSeq = 0
  /\ saveSeq = 0
  /\ lastFork = NoFork
  /\ objs = <<>>
  /\ calls = <<>>
  /\ callSeq = 0

StoreInit ==
  /\ AuxInit
  /\ sessions = <<>>
  /\ messageIndex = <<>>
  /\ arrays = <<>>
  /\ histories = <<>>
  /\ messageIdCounter = 0
  /\ checkpoints = <<>>
  /\ forkSeq = 0
  /\ saveSeq = 0
  /\ lastFork = NoFork
  /\ objs = <<>>
  /\ calls = <<>>
  /\ callSeq = 0

SetStore(st) ==
  /\ sessions' = st.sessions
  /\ messageIndex' = st.messageIndex
  /\ arrays' = st.arrays
  /\ histories' = st.histories
  /\ messageIdCounter' = st.messageIdCounter

\* store.saveSession(sessionId, parentId?, context?) called directly
SaveSession ==
  \E sessionId \in UserSessionIds, parentId \in {None} \cup UserSessionIds,
     context \in {NoContext} :
    /\ saveSeq < MaxSaves
    /\ saveSeq' = saveSeq + 1
    /\ parentId # sessionId
    /\ SetStore(saveSession(Store, sessionId, parentId, context))
    /\ UNCHANGED <<checkpoints, forkSeq, lastFork, execVars, auxVars>>

\* store.addMessage(sessionId, message) called directly
AddMessage ==
  \E sessionId \in SessionIds,
     message \in StoreMessages(messageIdCounter + 1) :
    /\ messageIdCounter < MaxMessages
    /\ SetStore(addMessage(Store, sessionId, message))
    /\ UNCHANGED <<checkpoints, forkSeq, saveSeq, lastFork, execVars, auxVars>>

\* store.forkSession(fromSessionId, atMessageId?)
ForkSession ==
  \E fromSessionId \in SessionIds,
     atMessageId \in 0..(messageIdCounter + 1) :
    LET ok == forkSessionOk(Store, fromSessionId, atMessageId)
        newSessionId == ForkSessionId(forkSeq + 1)
    IN /\ forkSeq < MaxForks
       /\ ok => messageIdCounter
                  + forkIndexOf(sessions[fromSessionId], atMessageId)
                  <= MaxMessages
       /\ SetStore(forkSession(Store, fromSessionId, atMessageId, newSessionId))
       /\ forkSeq' = IF ok THEN forkSeq + 1 ELSE forkSeq
       /\ lastFork' = IF ok
                        THEN [fromSessionId |-> fromSessionId,
                              atMessageId |-> atMessageId,
                              newSessionId |-> newSessionId]
                        ELSE lastFork
       /\ UNCHANGED <<checkpoints, saveSeq, execVars, auxVars>>

\* store.createCheckpoint(sessionId, name?)
CreateCheckpoint ==
  \E sessionId \in SessionIds, name \in {"cp"} :
    LET ok == createCheckpointOk(Store, sessionId)
        checkpointId == Cardinality(DOMAIN checkpoints) + 1
    IN /\ Cardinality(DOMAIN checkpoints) < MaxCheckpoints
       /\ checkpoints' = IF ok
                           THEN createCheckpoint(checkpoints, Store, sessionId,
                                                 name, checkpointId)
                           ELSE checkpoints
       /\ sessions' = IF ok
                        THEN [sessions EXCEPT ![sessionId].checkpoints =
                                                @ \cup {checkpointId}]
                        ELSE sessions
       /\ UNCHANGED <<messageIndex, arrays, histories, messageIdCounter,
                      forkSeq, saveSeq, lastFork, execVars, auxVars>>

\* sessions, messages and forks only
ForkNext == SaveSession \/ AddMessage \/ ForkSession

SpecFork == StoreInit /\ [][ForkNext]_vars

\* the whole store
StoreNext == SaveSession \/ AddMessage \/ ForkSession \/ CreateCheckpoint

SpecStore == StoreInit /\ [][StoreNext]_vars

\* ---------------------------------------------------------------- execute
\* null exit code
NoCode == -1

\* the names the restrictions of one type list
toolsOfType(rs, type) ==
  UNION {rs[i].tools : i \in {j \in 1..Len(rs) : rs[j].type = type}}

\* a variant of getCliFlags that passes --allowedTools whenever restrictions
\* are applied
getCliFlagsAllowAlways(rs) ==
  IF Len(rs) = 0 THEN <<>>
  ELSE <<"--allowedTools", toolsOfType(rs, "allow")>>
       \o (IF toolsOfType(rs, "deny") # {}
             THEN <<"--disallowedTools", toolsOfType(rs, "deny")>> ELSE <<>>)

\* toolManager.getCliFlags(): each flag is followed by the names joined with
\* commas, kept here as the set of the names
getCliFlags(rs) ==
  IF Len(rs) = 0 THEN <<>>
  ELSE (IF toolsOfType(rs, "allow") # {}
          THEN <<"--allowedTools", toolsOfType(rs, "allow")>> ELSE <<>>)
       \o (IF toolsOfType(rs, "deny") # {}
             THEN <<"--disallowedTools", toolsOfType(rs, "deny")>> ELSE <<>>)

\* the arguments execute() spawns claude with
executeArgs(rs) ==
  <<"-p", "--model", "DEFAULT_CLAUDE_MODEL">> \o getCliFlags(rs)

\* a variant of startCall that arms the timer whatever the timeout is
startCallArmed(obj, prompt, options, spawned, stubborn) ==
  LET timeout == determineTimeout(prompt, options, obj.defaultTimeout)
      call == [sessionId |-> obj.id, prompt |-> prompt,
               contextualPrompt |->
                 buildContextualPrompt(obj.systemPrompt, obj.messages, prompt),
               args |-> executeArgs(restrictions),
               pc |-> "running", spawned |-> spawned, stubborn |-> stubborn,
               timeout |-> timeout,
               timeoutHandle |-> "armed",
               killTimeoutHandle |-> "unset",
               isTimedOut |-> FALSE, killed |-> FALSE, signals |-> <<>>,
               output |-> <<>>, error |-> <<>>,
               exitCode |-> NoCode, exitSignal |-> "", result |-> Pending]
  IN IF spawned = "throws"
       THEN [call EXCEPT !.pc = "done", !.timeout = 0,
                         !.timeoutHandle = "unset", !.stubborn = FALSE,
                         !.result = FailSpawn]
       ELSE call

\* the state of one execute() call: its arguments, the locals of its closure
\* (timeout, timeoutHandle, killTimeoutHandle, isTimedOut, output, error), the
\* child (spawned, stubborn, killed, signals, exitCode, exitSignal) and the
\* promise (result)
startCall(obj, prompt, options, spawned, stubborn) ==
  LET timeout == determineTimeout(prompt, options, obj.defaultTimeout)
      call == [sessionId |-> obj.id, prompt |-> prompt,
               contextualPrompt |->
                 buildContextualPrompt(obj.systemPrompt, obj.messages, prompt),
               args |-> executeArgs(restrictions),
               pc |-> "running", spawned |-> spawned, stubborn |-> stubborn,
               timeout |-> timeout,
               timeoutHandle |-> IF timeout > 0 THEN "armed" ELSE "unset",
               killTimeoutHandle |-> "unset",
               isTimedOut |-> FALSE, killed |-> FALSE, signals |-> <<>>,
               output |-> <<>>, error |-> <<>>,
               exitCode |-> NoCode, exitSignal |-> "", result |-> Pending]
  IN IF spawned = "throws"
       THEN [call EXCEPT !.pc = "done", !.timeout = 0,
                         !.timeoutHandle = "unset", !.stubborn = FALSE,
                         !.result = FailSpawn]
       ELSE call

\* the timeout callback (lines 257-271)
onTimeout(call) ==
  [kill([call EXCEPT !.isTimedOut = TRUE], "SIGTERM") EXCEPT
     !.timeoutHandle = "fired", !.killTimeoutHandle = "armed"]

\* the grace callback (lines 265-269)
onKillTimeout(call) ==
  IF call.killed THEN [call EXCEPT !.killTimeoutHandle = "fired"]
  ELSE [kill(call, "SIGKILL") EXCEPT !.killTimeoutHandle = "fired"]

\* the 'error' handler (lines 292-300)
onError(call) ==
  resolve([call EXCEPT !.timeoutHandle = clearTimeout(@),
                       !.killTimeoutHandle = clearTimeout(@),
                       !.pc = "done"],
          FailSpawn)

\* a variant of exitResult that looks at the exit code before isTimedOut
exitResultCodeFirst(call, code, signal) ==
  IF code # 0 /\ ~call.isTimedOut THEN FailExit(code, call.error)
  ELSE IF code # 0 THEN FailTimeout(call.timeout, signal)
  ELSE Success(cleanOutputOf(call.output), parseToolUses(call.output))

\* the result the 'exit' handler resolves with (lines 309-330, 453-459)
exitResult(call, code, signal) ==
  IF call.isTimedOut THEN FailTimeout(call.timeout, signal)
  ELSE IF code # 0 THEN FailExit(code, call.error)
  ELSE Success(cleanOutputOf(call.output), parseToolUses(call.output))

\* a variant of newMessages that records the reply only
newMessagesReplyOnly(prompt, output) ==
  << [role |-> "assistant", content |-> finalOutputOf(output)] >>

\* the two messages a successful call records (lines 365-369, 425-432)
newMessages(prompt, output) ==
  << [role |-> "user", content |-> prompt],
     [role |-> "assistant", content |-> finalOutputOf(output)] >>

\* the 'exit' handler (lines 302-461) on the call, the session object and
\* the store
onExitCall(call, code, signal) ==
  resolve([call EXCEPT !.timeoutHandle = clearTimeout(@),
                       !.killTimeoutHandle = clearTimeout(@),
                       !.pc = "done",
                       !.exitCode = code, !.exitSignal = signal],
          exitResult(call, code, signal))

onExitObject(obj, call, code, signal) ==
  IF exitResult(call, code, signal).kind = "fail"
    THEN [obj EXCEPT !.status = "error"]
    ELSE LET messages == obj.messages \o newMessages(call.prompt, call.output)
         IN [obj EXCEPT !.messages = messages,
                        !.messageCount = Len(messages),
                        !.toolUseCount = @ + Len(parseToolUses(call.output))]

\* a variant of onExitStore that saves the messages to the session the
\* store has held longest
onExitStoreFirst(st, call, code, signal) ==
  IF exitResult(call, code, signal).kind = "fail" THEN st
  ELSE addMessages(st, CHOOSE id \in DOMAIN st.sessions :
                         \A other \in DOMAIN st.sessions : id <= other,
                   newMessages(call.prompt, call.output))

onExitStore(st, call, code, signal) ==
  IF exitResult(call, code, signal).kind = "fail" THEN st
  ELSE addMessages(st, call.sessionId, newMessages(call.prompt, call.output))

\* ------------------------------------------------------ execute(): actions
\* the conversation a session is constructed with: none, a system prompt, or
\* a system prompt and a history
InitialHistory ==
  << [role |-> "system", content |-> <<"s0">>],
     [role |-> "user", content |-> <<"q0">>],
     [role |-> "assistant", content |-> <<"r0">>] >>
SystemPrompts == {<<>>, <<"sys">>}

\* the n-th prompt a caller sends
ExecPrompts == << <<"q1">>, <<"Run", SP, "q2">>, <<"q3">>, <<"q4">> >>
PromptOf(n) == ExecPrompts[((n - 1) % Len(ExecPrompts)) + 1]
ExecOptions == {NoOptions, [NoOptions EXCEPT !.hasTimeout = TRUE]}

\* what a child writes: stdout is a prefix of one of PossibleOutputs, made of
\* the chunks OutChunks; stderr is empty or one chunk
OutChunks == {<<"y">>, <<NL, "Human:", SP, "z">>}
PossibleOutputs == {<<"y">>, <<"y", NL, "Human:", SP, "z">>}
ErrChunks == {<<"e">>}
ExitSignals(call) == {call.signals[i] : i \in 1..Len(call.signals)}

\* the calls whose child has not ended yet
InFlight == {c \in DOMAIN calls : calls[c].pc # "done"}

\* a settled call with no timer pending is unreachable once its caller has
\* taken the result; it is dropped when the next call starts
Reachable(call) ==
  \/ call.pc = "running"
  \/ call.timeoutHandle = "armed"
  \/ call.killTimeoutHandle = "armed"

SetCall(c, call) ==
  /\ calls' = [calls EXCEPT ![c] = call]
  /\ UNCHANGED callSeq

ExecInit ==
  \E systemPrompt \in SystemPrompts, withHistory \in BOOLEAN :
    LET histories0 == IF withHistory THEN <<InitialHistory>> ELSE <<>>
        context == [systemPrompt |-> systemPrompt,
                    history |-> IF withHistory THEN 1 ELSE None]
        st0 == [sessions |-> <<>>, messageIndex |-> <<>>, arrays |-> <<>>,
                histories |-> histories0, messageIdCounter |-> 0]
        st == constructorStore(st0, 1, None, context)
    IN /\ AuxInit
       /\ sessions = st.sessions
       /\ messageIndex = st.messageIndex
       /\ arrays = st.arrays
       /\ histories = st.histories
       /\ messageIdCounter = st.messageIdCounter
       /\ objs = (1 :> constructorObject(st0, 1, None, context))
       /\ calls = <<>>
       /\ callSeq = 0
       /\ checkpoints = <<>>
       /\ forkSeq = 0
       /\ saveSeq = 0
       /\ lastFork = NoFork

\* session.execute(prompt, options) up to the return of the promise
Execute ==
  \E id \in DOMAIN objs, options \in ExecOptions,
     spawned \in {"ok", "failed", "throws"}, stubborn \in BOOLEAN :
    /\ callSeq < MaxCalls
    /\ Cardinality(InFlight) < MaxInFlight
    /\ stubborn => spawned = "ok"
    /\ callSeq' = callSeq + 1
    /\ calls' = (callSeq' :> startCall(objs[id], PromptOf(callSeq'), options,
                                       spawned, stubborn))
                  @@ [c \in {d \in DOMAIN calls : Reachable(calls[d])}
                        |-> calls[c]]
    /\ UNCHANGED <<storeVars, objs, auxVars>>

\* claude.stdout.on('data')
StdoutData(c) ==
  \E data \in OutChunks :
    /\ c \in DOMAIN calls
    /\ calls[c].pc = "running"
    /\ calls[c].spawned = "ok"
    /\ calls[c].output \o data \in PossibleOutputs
    /\ SetCall(c, [calls[c] EXCEPT !.output = @ \o data])
    /\ UNCHANGED <<storeVars, objs, auxVars>>

\* claude.stderr.on('data')
StderrData(c) ==
  \E data \in ErrChunks :
    /\ c \in DOMAIN calls
    /\ calls[c].pc = "running"
    /\ calls[c].spawned = "ok"
    /\ calls[c].error = <<>>
    /\ SetCall(c, [calls[c] EXCEPT !.error = @ \o data])
    /\ UNCHANGED <<storeVars, objs, auxVars>>

\* the timeout timer fires.  A failed spawn emits 'error' on the next tick,
\* before any timer can fire.
TimeoutFire(c) ==
  /\ c \in DOMAIN calls
  /\ calls[c].timeoutHandle = "armed"
  /\ ~(calls[c].pc = "running" /\ calls[c].spawned = "failed")
  /\ SetCall(c, onTimeout(calls[c]))
  /\ UNCHANGED <<storeVars, objs, auxVars>>

\* the grace timer fires
KillTimeoutFire(c) ==
  /\ c \in DOMAIN calls
  /\ calls[c].killTimeoutHandle = "armed"
  /\ SetCall(c, onKillTimeout(calls[c]))
  /\ UNCHANGED <<storeVars, objs, auxVars>>

\* claude.on('error'): the spawn failed; no 'exit' follows
ChildError(c) ==
  /\ c \in DOMAIN calls
  /\ calls[c].pc = "running"
  /\ calls[c].spawned = "failed"
  /\ SetCall(c, onError(calls[c]))
  /\ objs' = [objs EXCEPT ![calls[c].sessionId].status = "error"]
  /\ UNCHANGED <<storeVars, auxVars>>

\* claude.on('exit'): the child ends with an exit code, or with one of the
\* signals it was sent; a stubborn child ends only when it is sent SIGKILL
ChildExit(c) ==
  \E code \in {0, 1, NoCode}, signal \in {"", "SIGTERM", "SIGKILL"} :
    /\ c \in DOMAIN calls
    /\ calls[c].pc = "running"
    /\ calls[c].spawned = "ok"
    /\ (code = NoCode) = (signal # "")
    /\ signal # "" => signal \in ExitSignals(calls[c])
    /\ calls[c].stubborn => signal = "SIGKILL"
    /\ SetCall(c, onExitCall(calls[c], code, signal))
    /\ objs' = [objs EXCEPT ![calls[c].sessionId] =
                              onExitObject(@, calls[c], code, signal)]
    /\ SetStore(onExitStore(Store, calls[c], code, signal))
    /\ UNCHANGED <<checkpoints, forkSeq, saveSeq, lastFork, auxVars>>

ExecNext ==
  \/ Execute
  \/ \E c \in 1..MaxCalls : StdoutData(c)
  \/ \E c \in 1..MaxCalls : StderrData(c)
  \/ \E c \in 1..MaxCalls : TimeoutFire(c)
  \/ \E c \in 1..MaxCalls : KillTimeoutFire(c)
  \/ \E c \in 1..MaxCalls : ChildError(c)
  \/ \E c \in 1..MaxCalls : ChildExit(c)

SpecExec == ExecInit /\ [][ExecNext]_vars

\* ------------------------------------- a child that cannot be signalled
\* the timeout callback when kill('SIGTERM') is refused: kill() emits 'error'
\* before it returns, the 'error' handler settles the promise while the child
\* runs on (pc "settled"), and the callback then arms the grace timer
onTimeoutKillRefused(call) ==
  [resolve([call EXCEPT !.isTimedOut = TRUE, !.pc = "settled"], FailSpawn)
     EXCEPT !.timeoutHandle = "fired", !.killTimeoutHandle = "armed"]

TimeoutFireKillRefused(c) ==
  /\ c \in DOMAIN calls
  /\ calls[c].timeoutHandle = "armed"
  /\ calls[c].pc = "running"
  /\ calls[c].spawned = "ok"
  /\ SetCall(c, onTimeoutKillRefused(calls[c]))
  /\ objs' = [objs EXCEPT ![calls[c].sessionId].status = "error"]
  /\ UNCHANGED <<storeVars, auxVars>>

\* claude.on('exit') after the 'error' event of the call was handled: the
\* child ends on its own
ExitAfterError(c) ==
  \E code \in {0, 1} :
    /\ c \in DOMAIN calls
    /\ calls[c].pc = "settled"
    /\ SetCall(c, onExitCall(calls[c], code, ""))
    /\ objs' = [objs EXCEPT ![calls[c].sessionId] =
                              onExitObject(@, calls[c], code, "")]
    /\ SetStore(onExitStore(Store, calls[c], code, ""))
    /\ UNCHANGED <<checkpoints, forkSeq, saveSeq, lastFork, auxVars>>

\* execute() with every event of the child but its stderr output, which no
\* handler reads before the result is built
ErrorExitNext ==
  \/ Execute
  \/ \E c \in 1..MaxCalls : StdoutData(c)
  \/ \E c \in 1..MaxCalls : TimeoutFire(c)
  \/ \E c \in 1..MaxCalls : KillTimeoutFire(c)
  \/ \E c \in 1..MaxCalls : ChildError(c)
  \/ \E c \in 1..MaxCalls : ChildExit(c)
  \/ \E c \in 1..MaxCalls : TimeoutFireKillRefused(c)
  \/ \E c \in 1..MaxCalls : ExitAfterError(c)

SpecErrorExit == ExecInit /\ [][ErrorExitNext]_vars

\* ---------------------------------------- sessions that share one store
\* the store after the sessions 1..n are constructed with no context
RECURSIVE sharedStore(_)
sharedStore(n) ==
  IF n = 0
    THEN [sessions |-> <<>>, messageIndex |-> <<>>, arrays |-> <<>>,
          histories |-> <<>>, messageIdCounter |-> 0]
    ELSE constructorStore(sharedStore(n - 1), n, None, EmptyContext)

ParallelInit ==
  LET st == sharedStore(MaxParallel)
  IN /\ AuxInit
     /\ sessions = st.sessions
     /\ messageIndex = st.messageIndex
     /\ arrays = st.arrays
     /\ histories = st.histories
     /\ messageIdCounter = st.messageIdCounter
     /\ objs = [id \in 1..MaxParallel |->
                  constructorObject(st, id, None, EmptyContext)]
     /\ calls = <<>>
     /\ callSeq = 0
     /\ checkpoints = <<>>
     /\ forkSeq = 0
     /\ saveSeq = 0
     /\ lastFork = NoFork

\* session.execute(prompt) on a session that has no call in flight, while
\* calls of other sessions may be in flight; the child is spawned and ends
\* when it is sent a signal
ParallelExecute ==
  \E id \in DOMAIN objs, options \in {NoOptions},
     spawned \in {"ok"}, stubborn \in {FALSE} :
    /\ callSeq < MaxCalls
    /\ \A c \in InFlight : calls[c].sessionId # id
    /\ callSeq' = callSeq + 1
    /\ calls' = (callSeq' :> startCall(objs[id], PromptOf(callSeq'), options,
                                       spawned, stubborn))
                  @@ [c \in {d \in DOMAIN calls : Reachable(calls[d])}
                        |-> calls[c]]
    /\ UNCHANGED <<storeVars, objs, auxVars>>

\* the calls of the sessions, their output, their timeouts and their exits
ParallelNext ==
  \/ ParallelExecute
  \/ \E c \in 1..MaxCalls : StdoutData(c)
  \/ \E c \in 1..MaxCalls : TimeoutFire(c)
  \/ \E c \in 1..MaxCalls : ChildExit(c)

SpecParallel == ParallelInit /\ [][ParallelNext]_vars

\* ------------------------------------- overlapping calls on one session
\* session.execute(prompt) while earlier calls of the session may be in
\* flight
OverlappingExecute ==
  \E id \in DOMAIN objs, options \in {NoOptions},
     spawned \in {"ok"}, stubborn \in {FALSE} :
    /\ callSeq < MaxCalls
    /\ callSeq' = callSeq + 1
    /\ calls' = (callSeq' :> startCall(objs[id], PromptOf(callSeq'), options,
                                       spawned, stubborn))
                  @@ [c \in {d \in DOMAIN calls : Reachable(calls[d])}
                        |-> calls[c]]
    /\ UNCHANGED <<storeVars, objs, auxVars>>

OverlapNext ==
  \/ OverlappingExecute
  \/ \E c \in 1..MaxCalls : StdoutData(c)
  \/ \E c \in 1..MaxCalls : TimeoutFire(c)
  \/ \E c \in 1..MaxCalls : ChildExit(c)

SpecOverlap == ExecInit /\ [][OverlapNext]_vars

\* the event loop runs every timer that is due and every event that is
\* pending; a child that was sent SIGKILL ends
KilledExit(c) ==
  /\ c \in DOMAIN calls
  /\ "SIGKILL" \in ExitSignals(calls[c])
  /\ ChildExit(c)

ExecFairness ==
  \A c \in 1..MaxCalls :
    /\ WF_vars(TimeoutFire(c))
    /\ WF_vars(KillTimeoutFire(c))
    /\ WF_vars(ChildError(c))
    /\ WF_vars(KilledExit(c))

SpecExecFair == ExecInit /\ [][ExecNext]_vars /\ ExecFairness

\* ------------------------------------------------------- session.fork()
\* fork(atMessageId): store.forkSession, then a new StatelessClaudeSession
\* constructed with the new id, this.id as parentId and the forked context
forkStore(st, id, atMessageId, newSessionId) ==
  LET st1 == forkSession(st, id, atMessageId, newSessionId)
  IN constructorStore(st1, newSessionId, id, st1.sessions[newSessionId].context)

forkObject(st, id, atMessageId, newSessionId) ==
  LET st1 == forkSession(st, id, atMessageId, newSessionId)
  IN constructorObject(st1, newSessionId, id,
                       st1.sessions[newSessionId].context)

\* session.fork(atMessageId?); a failed store.forkSession makes it throw
Fork ==
  \E id \in DOMAIN objs, atMessageId \in 0..messageIdCounter :
    LET ok == forkSessionOk(Store, id, atMessageId)
        newSessionId == ForkSessionId(forkSeq + 1)
    IN /\ forkSeq < MaxForks
       /\ IF ok
            THEN /\ SetStore(forkStore(Store, id, atMessageId, newSessionId))
                 /\ objs' = (newSessionId :>
                               forkObject(Store, id, atMessageId, newSessionId))
                             @@ objs
                 /\ forkSeq' = forkSeq + 1
                 /\ lastFork' = [fromSessionId |-> id,
                                 atMessageId |-> atMessageId,
                                 newSessionId |-> newSessionId]
            ELSE UNCHANGED <<sessions, messageIndex, arrays, histories,
                             messageIdCounter, objs, forkSeq, lastFork>>
       /\ UNCHANGED <<checkpoints, saveSeq, calls, callSeq, auxVars>>

SessionNext == ExecNext \/ Fork

SpecSession == ExecInit /\ [][SessionNext]_vars

\* ---------------------------------------------------------------- compact
\* the number of recent messages every strategy keeps
RECENT_MESSAGES == 10

CompactStrategies == {"truncate", "summarize", "smart"}

\* '[Previous ${this.messages.length - 10} messages summarized]'
summaryMessage(n) ==
  [role |-> "system",
   content |-> <<"Previous", ToString(n), "messages summarized">>]

IsSystemMessage(m) == m.role = "system"

\* this.messages.slice(-10)
recentMessages(messages) ==
  SubSeq(messages, Len(messages) - RECENT_MESSAGES + 1, Len(messages))

\* session.compact(strategy): each strategy acts on more than ten messages
compact(obj, strategy) ==
  LET messages == obj.messages
      compacted ==
        CASE strategy = "truncate" -> recentMessages(messages)
          [] strategy = "summarize" ->
               <<summaryMessage(Len(messages) - RECENT_MESSAGES)>>
                 \o recentMessages(messages)
          [] OTHER -> SelectSeq(messages, IsSystemMessage)
                        \o recentMessages(messages)
  IN IF Len(messages) > RECENT_MESSAGES
       THEN [obj EXCEPT !.messages = compacted,
                        !.messageCount = Len(compacted)]
       ELSE obj

\* the histories a session is constructed with: user and assistant turns
\* with system messages at up to MaxSystemMessages places
CompactHistories ==
  {[i \in 1..n |-> IF i \in places THEN [role |-> "system", content |-> <<"s">>]
                   ELSE IF i % 2 = 1 THEN [role |-> "user", content |-> <<"q">>]
                   ELSE [role |-> "assistant", content |-> <<"r">>]] :
     n \in 0..MaxHistory,
     places \in {ps \in SUBSET (1..MaxHistory) :
                   Cardinality(ps) <= MaxSystemMessages}}

CompactInit ==
  \E history \in CompactHistories :
    LET context == [systemPrompt |-> <<>>, history |-> 1]
        st0 == [sessions |-> <<>>, messageIndex |-> <<>>, arrays |-> <<>>,
                histories |-> <<history>>, messageIdCounter |-> 0]
        st == constructorStore(st0, 1, None, context)
    IN /\ AuxInit
       /\ sessions = st.sessions
       /\ messageIndex = st.messageIndex
       /\ arrays = st.arrays
       /\ histories = st.histories
       /\ messageIdCounter = st.messageIdCounter
       /\ objs = (1 :> constructorObject(st0, 1, None, context))
       /\ calls = <<>>
       /\ callSeq = 0
       /\ checkpoints = <<>>
       /\ forkSeq = 0
       /\ saveSeq = 0
       /\ lastFork = NoFork

\* session.compact(strategy) on a session of at most MaxHistory messages
Compact ==
  \E id \in DOMAIN objs, strategy \in CompactStrategies :
    /\ Len(objs[id].messages) <= MaxHistory
    /\ objs' = [objs EXCEPT ![id] = compact(@, strategy)]
    /\ UNCHANGED <<storeVars, calls, callSeq, auxVars>>

SpecCompact == CompactInit /\ [][Compact]_vars

\* ------------------------------------------- the cleaning as a function
\* the raw outputs: every text of at most MaxTextLen tokens
OutputTokens ==
  {"x", NL, SP, "Human:", "H:", "Assistant:", "BIG", "<tool_use>",
   "</tool_use>"}
Texts(tokens, n) == UNION {[1..k -> tokens] : k \in 0..n}

SanitizeInit ==
  /\ EmptyStore
  /\ CacheInit
  /\ ToolInit
  /\ fnInput \in Texts(OutputTokens, MaxTextLen)
  /\ fnOutput = NoOutput

\* the exit handler's cleaning of the raw output fnInput
Sanitize ==
  /\ ~fnOutput.done
  /\ fnOutput' = [done |-> TRUE, value |-> finalOutputOf(fnInput)]
  /\ UNCHANGED <<storeVars, execVars, cacheVars, toolVars, fnInput>>

SpecSanitize == SanitizeInit /\ [][Sanitize]_vars

\* ------------------------------------------ the OutputParser as a function
\* the pieces a buffer is put together from: text, a well-formed block, and
\* blocks that lack a part, are not closed or do not parse
BufferPieces ==
  { <<"x">>,
    <<NL>>,
    <<"<tool_use>", "<tool_name>", "read", "</tool_name>",
      "<parameters>", "{}", "</parameters>", "</tool_use>">>,
    <<"<tool_use>", NL, "<parameters>", NL, "{}", NL, "</parameters>", SP,
      "<tool_name>", SP, "write", "</tool_name>", NL, "</tool_use>">>,
    <<"<tool_use>", "<tool_name>", "read", "</tool_name>", "</tool_use>">>,
    <<"<tool_use>", "<parameters>", "{}", "</parameters>", "</tool_use>">>,
    <<"<tool_use>", "<tool_name>", "read", "</tool_name>",
      "<parameters>", "x", "</parameters>", "</tool_use>">>,
    <<"<tool_use>", "<tool_name>", "read", "</tool_name>",
      "<parameters>", "{}", "</tool_use>">>,
    <<"<tool_use>", "<tool_name>", "read",
      "<parameters>", "{}", "</parameters>", "</tool_use>">>,
    <<"<tool_use>", "<tool_name>", "write", "</tool_name>",
      "<parameters>", "{}", "</parameters>">>,
    <<"<tool_use>", "<tool_name>", "read", NL, "</tool_name>",
      "<parameters>", "{}", "</parameters>", "</tool_use>">>,
    <<"<tool_use>", "</tool_use>">>,
    <<"<tool_use>">>,
    <<"</tool_use>">> }

RECURSIVE Buffers(_)
Buffers(n) ==
  IF n = 0 THEN {<<>>}
  ELSE Buffers(n - 1)
         \cup {piece \o buffer : piece \in BufferPieces, buffer \in Buffers(n - 1)}

ParserInit ==
  /\ EmptyStore
  /\ CacheInit
  /\ ToolInit
  /\ fnInput \in Buffers(MaxPieces)
  /\ fnOutput = NoOutput

\* what the exit handler reads from the parser that holds the buffer fnInput
ParseOutput ==
  /\ ~fnOutput.done
  /\ fnOutput' = [done |-> TRUE,
                  value |-> [toolUses |-> parseToolUses(fnInput),
                             content |-> extractContent(fnInput)]]
  /\ UNCHANGED <<storeVars, execVars, cacheVars, toolVars, fnInput>>

SpecParser == ParserInit /\ [][ParseOutput]_vars

\* ------------------------------------------ determineTimeout as a function
\* the prompts: at most MaxPromptWords phrases, a space between two phrases
PromptPhrases ==
  {<<"q">>, <<"Yes", SP, "or", SP, "no">>, <<"Implement">>, <<"function">>,
   <<"edit">>, <<"write", SP, "to">>, <<"Run">>, <<"bash">>}

RECURSIVE PhraseTexts(_)
PhraseTexts(n) ==
  IF n = 0 THEN {<<>>}
  ELSE PhraseTexts(n - 1)
       \cup PromptPhrases
       \cup {t \o <<SP>> \o ph : t \in PhraseTexts(n - 1) \ {<<>>},
                                  ph \in PromptPhrases}

TimeoutOptions ==
  [hasTimeout : {FALSE}, timeout : {0},
   operationType : {"", "quick", "text", "code", "file", "system"},
   tools : {<<>>, <<"Read">>}]
  \cup [hasTimeout : {TRUE}, timeout : {0, 3000},
        operationType : {"", "quick", "text", "code", "file", "system"},
        tools : {<<>>, <<"Read">>}]

\* this.defaultTimeout: options.defaultTimeout || STANDARD_REQUEST
DefaultTimeouts == {STANDARD_REQUEST, 60000}

TimeoutInit ==
  /\ EmptyStore
  /\ CacheInit
  /\ ToolInit
  /\ fnInput \in [prompt : PhraseTexts(MaxPromptWords),
                   options : TimeoutOptions,
                   defaultTimeout : DefaultTimeouts]
  /\ fnOutput = NoOutput

DetermineTimeout ==
  /\ ~fnOutput.done
  /\ fnOutput' = [done |-> TRUE,
                  value |-> determineTimeout(fnInput.prompt, fnInput.options,
                                             fnInput.defaultTimeout)]
  /\ UNCHANGED <<storeVars, execVars, cacheVars, toolVars, fnInput>>

SpecTimeout == TimeoutInit /\ [][DetermineTimeout]_vars

\* ------------------------------------------------------------ ToolManager
ToolNames == {"A", "B"}

\* a restriction: its type and the tool names it lists
Restrictions == [type : {"allow", "deny"}, tools : SUBSET ToolNames]

RestrictionLists == UNION {[1..k -> Restrictions] : k \in 0..MaxRestrictions}

\* the names collected from the restrictions of one type
allowedTools(rs) ==
  UNION {rs[i].tools : i \in {j \in 1..Len(rs) : rs[j].type = "allow"}}

deniedTools(rs) ==
  UNION {rs[i].tools : i \in {j \in 1..Len(rs) : rs[j].type # "allow"}}

\* getAvailableTools(), as the set of names of the tools it returns
getAvailableTools(ts, rs) ==
  IF Len(rs) = 0 THEN ts
  ELSE {t \in ts :
          IF t \in deniedTools(rs) THEN FALSE
          ELSE IF Cardinality(allowedTools(rs)) > 0 THEN t \in allowedTools(rs)
          ELSE TRUE}

isToolAvailable(ts, rs, toolName) ==
  \E t \in getAvailableTools(ts, rs) : t = toolName

ToolManagerInit ==
  /\ EmptyStore
  /\ CacheInit
  /\ ToolInit
  /\ PureInit

RegisterTool ==
  \E name \in ToolNames :
    /\ tools' = tools \cup {name}
    /\ UNCHANGED <<storeVars, execVars, cacheVars, pureVars, restrictions,
                   sessionTools, claudeSessions, removedIds>>

UnregisterTool ==
  \E toolName \in ToolNames :
    /\ tools' = tools \ {toolName}
    /\ UNCHANGED <<storeVars, execVars, cacheVars, pureVars, restrictions,
                   sessionTools, claudeSessions, removedIds>>

ApplyRestrictions ==
  \E rs \in RestrictionLists :
    /\ restrictions' = rs
    /\ UNCHANGED <<storeVars, execVars, cacheVars, pureVars, tools,
                   sessionTools, claudeSessions, removedIds>>

ToolNext == RegisterTool \/ UnregisterTool \/ ApplyRestrictions

SpecTools == ToolManagerInit /\ [][ToolNext]_vars

\* --------------------------------------------------------- response cache
\* the default of cacheResponse's ttl parameter
DEFAULT_TTL == 3600000

CacheSessions == {1, 2}
CachePrompts == {"p", "q"}
\* the response text and the id of the message that carries it
CacheResponses == {<<"r1", "m1">>, <<"r2", "m2">>}
CacheTtls == {1, DEFAULT_TTL}

\* this.responseCache.get(sessionId) || []
sessionCacheOf(cache, sessionId) ==
  IF sessionId \in DOMAIN cache THEN cache[sessionId] ELSE <<>>

cacheResponse(cache, t, sessionId, prompt, response, messageId, ttl) ==
  LET cached == [prompt |-> prompt, response |-> response,
                 messageId |-> messageId, timestamp |-> t, ttl |-> ttl]
  IN (sessionId :> Append(sessionCacheOf(cache, sessionId), cached)) @@ cache

\* a variant of getCachedResponse that still returns an entry at the moment
\* its ttl has run out
getCachedResponseInclusive(cache, t, sessionId, prompt) ==
  LET sessionCache == sessionCacheOf(cache, sessionId)
      hit(c) == c.prompt = prompt /\ t - c.timestamp <= c.ttl
      found == {i \in 1..Len(sessionCache) : hit(sessionCache[i])}
  IN [success |-> TRUE,
      value |-> IF found = {} THEN <<>>
                ELSE <<sessionCache[CHOOSE i \in found :
                                      \A j \in found : i <= j]>>]

\* getCachedResponse: Array.prototype.find returns the first entry that
\* matches; value is <<>> for null and <<entry>> otherwise
getCachedResponse(cache, t, sessionId, prompt) ==
  LET sessionCache == sessionCacheOf(cache, sessionId)
      hit(c) == c.prompt = prompt /\ t - c.timestamp < c.ttl
      found == {i \in 1..Len(sessionCache) : hit(sessionCache[i])}
  IN [success |-> TRUE,
      value |-> IF found = {} THEN <<>>
                ELSE <<sessionCache[CHOOSE i \in found :
                                      \A j \in found : i <= j]>>]

\* a variant of validCache that keeps an entry at the moment its ttl has run
\* out
validCacheInclusive(entries, t) ==
  SelectSeq(entries, LAMBDA c : t - c.timestamp <= c.ttl)

\* cache.filter((c) => now - c.timestamp.getTime() < c.ttl)
validCache(entries, t) ==
  SelectSeq(entries, LAMBDA c : t - c.timestamp < c.ttl)

\* pruneCache(sessionId)
pruneCacheOf(cache, t, sessionId) ==
  (sessionId :> validCache(sessionCacheOf(cache, sessionId), t)) @@ cache

\* pruneCache(): a session whose entries have all expired loses its key
pruneCacheAll(cache, t) ==
  [sid \in {x \in DOMAIN cache : Len(validCache(cache[x], t)) > 0} |->
     validCache(cache[sid], t)]

CacheStoreInit ==
  /\ EmptyStore
  /\ CacheInit
  /\ ToolInit
  /\ PureInit

\* cacheLog keeps every entry ever cached, with its session
CacheResponse ==
  \E sessionId \in CacheSessions, prompt \in CachePrompts,
     r \in CacheResponses, ttl \in CacheTtls :
    /\ Cardinality(cacheLog) < MaxCacheEntries
    /\ responseCache' = cacheResponse(responseCache, now, sessionId, prompt,
                                      r[1], r[2], ttl)
    /\ cacheLog' = cacheLog \cup
                     {[sessionId |-> sessionId, prompt |-> prompt,
                       response |-> r[1], messageId |-> r[2],
                       timestamp |-> now, ttl |-> ttl,
                       seq |-> Cardinality(cacheLog) + 1]}
    /\ fnOutput' = NoOutput
    /\ UNCHANGED <<storeVars, execVars, toolVars, fnInput, now>>

\* fnOutput keeps what the read that was just made returned
GetCachedResponse ==
  \E sessionId \in CacheSessions, prompt \in CachePrompts :
    /\ fnOutput' = [done |-> TRUE,
                    value |-> [sessionId |-> sessionId, prompt |-> prompt,
                               result |-> getCachedResponse(responseCache, now,
                                                            sessionId, prompt)]]
    /\ UNCHANGED <<storeVars, execVars, cacheVars, toolVars, fnInput>>

PruneCache ==
  /\ \/ \E sessionId \in CacheSessions :
          responseCache' = pruneCacheOf(responseCache, now, sessionId)
     \/ responseCache' = pruneCacheAll(responseCache, now)
  /\ fnOutput' = NoOutput
  /\ UNCHANGED <<storeVars, execVars, toolVars, fnInput, now, cacheLog>>

\* Date.now() moves on
Tick ==
  /\ now < MaxTime
  /\ now' = now + 1
  /\ fnOutput' = NoOutput
  /\ UNCHANGED <<storeVars, execVars, toolVars, fnInput, responseCache,
                 cacheLog>>

CacheNext == CacheResponse \/ GetCachedResponse \/ PruneCache \/ Tick

SpecCache == CacheStoreInit /\ [][CacheNext]_vars

\* the cache as cacheResponse and pruneCache change it while time passes
PruneNext == CacheResponse \/ PruneCache \/ Tick

SpecPrune == CacheStoreInit /\ [][PruneNext]_vars

\* ------------------------------------------- forking one session repeatedly
\* the store with one saved session S, under addMessage on every session and
\* up to MaxSiblings forkSession calls on S, with room for
\* MaxSiblingMessages message records
SiblingSource == 1

SiblingSaveSession ==
  /\ SiblingSource \notin DOMAIN sessions
  /\ SetStore(saveSession(Store, SiblingSource, None, NoContext))
  /\ saveSeq' = saveSeq + 1
  /\ UNCHANGED <<checkpoints, forkSeq, lastFork, execVars, auxVars>>

SiblingAddMessage ==
  \E sessionId \in DOMAIN sessions,
     message \in StoreMessages(messageIdCounter + 1) :
    /\ messageIdCounter < MaxSiblingMessages
    /\ SetStore(addMessage(Store, sessionId, message))
    /\ UNCHANGED <<checkpoints, forkSeq, saveSeq, lastFork, execVars, auxVars>>

SiblingForkSession ==
  \E fromSessionId \in DOMAIN sessions \cap {SiblingSource},
     atMessageId \in 0..messageIdCounter :
    LET ok == forkSessionOk(Store, fromSessionId, atMessageId)
        newSessionId == ForkSessionId(forkSeq + 1)
    IN /\ forkSeq < MaxSiblings
       /\ ok
       /\ messageIdCounter + forkIndexOf(sessions[fromSessionId], atMessageId)
            <= MaxSiblingMessages
       /\ SetStore(forkSession(Store, fromSessionId, atMessageId, newSessionId))
       /\ forkSeq' = forkSeq + 1
       /\ lastFork' = [fromSessionId |-> fromSessionId,
                       atMessageId |-> atMessageId,
                       newSessionId |-> newSessionId]
       /\ UNCHANGED <<checkpoints, saveSeq, execVars, auxVars>>

SiblingNext == SiblingSaveSession \/ SiblingAddMessage \/ SiblingForkSession

SpecSiblings == StoreInit /\ [][SiblingNext]_vars

\* store.saveSession(sessionId) with the id of a session the store holds
ReRegisterSession ==
  \E sessionId \in DOMAIN sessions :
    /\ saveSeq < MaxSaves + 1
    /\ saveSeq' = saveSeq + 1
    /\ SetStore(saveSession(Store, sessionId, None, NoContext))
    /\ UNCHANGED <<checkpoints, forkSeq, lastFork, execVars, auxVars>>

\* addMessage and forkSession until MaxIds ids are assigned
AddMessageUpToMaxIds == SiblingAddMessage /\ messageIdCounter' <= MaxIds
ForkSessionUpToMaxIds == SiblingForkSession /\ messageIdCounter' <= MaxIds

\* one source session and its forks, with sessions registered again
ReRegisterNext ==
  \/ SiblingSaveSession
  \/ AddMessageUpToMaxIds
  \/ ForkSessionUpToMaxIds
  \/ ReRegisterSession

SpecReRegister == StoreInit /\ [][ReRegisterNext]_vars

\* ------------------------------------------------------------------ Claude
\* options.tools of createSession: absent, or a list of restrictions
NoTools == [given |-> FALSE, rules |-> <<>>]

ToolOptions ==
  {NoTools}
  \cup {[given |-> TRUE, rules |-> rs] :
          rs \in {<<>>, <<[type |-> "allow", tools |-> {"A"}]>>,
                  <<[type |-> "deny", tools |-> {"A"}]>>}}

\* Claude.createSession(options): a new session object on the shared store and
\* the shared tool manager; options.tools, when given, replaces the tool
\* manager's restrictions
CreateSessionWith(toolOptions) ==
  \E options \in toolOptions :
    LET sessionId == Cardinality(DOMAIN objs) + 1
    IN /\ Cardinality(DOMAIN objs) < MaxClaudeSessions
       /\ SetStore(constructorStore(Store, sessionId, None, EmptyContext))
       /\ objs' = (sessionId :> constructorObject(Store, sessionId, None,
                                                  EmptyContext)) @@ objs
       /\ restrictions' = IF options.given THEN options.rules ELSE restrictions
       /\ sessionTools' = (sessionId :> options) @@ sessionTools
       /\ claudeSessions' = claudeSessions \cup {sessionId}
       /\ UNCHANGED <<checkpoints, forkSeq, saveSeq, lastFork, calls, callSeq,
                      cacheVars, pureVars, tools, removedIds>>

CreateSession == CreateSessionWith(ToolOptions)

ClaudeNext == CreateSession \/ ExecNext

SpecClaude == StoreInit /\ [][ClaudeNext]_vars

\* ------------------------------------------- Claude: the session registry
\* session.destroy()
destroy(obj) == [obj EXCEPT !.status = "terminated"]

NotFound == [success |-> FALSE, error |-> "not found"]
NotActive == [success |-> FALSE, error |-> "not active"]
Succeeded == [success |-> TRUE, error |-> ""]

\* a variant of restoreSession that looks for 'terminated' only
restoreSessionTerminatedOnly(held, os, id) ==
  IF id \notin held THEN NotFound
  ELSE IF os[id].status = "terminated" THEN NotActive
  ELSE Succeeded

\* Claude.restoreSession(id), with the ids Claude.sessions holds
restoreSession(held, os, id) ==
  IF id \notin held THEN NotFound
  ELSE IF os[id].status = "terminated" \/ os[id].status = "error"
    THEN NotActive
  ELSE Succeeded

\* the result of Claude.destroySession(id)
destroySessionResult(held, id) ==
  IF id \notin held THEN NotFound ELSE Succeeded

\* the ids a caller may pass: those of the sessions and one never created
ClaudeSessionIds == 1..(MaxClaudeSessions + 1)

\* Claude.destroySession(id)
DestroySession ==
  \E id \in ClaudeSessionIds :
    /\ destroySessionResult(claudeSessions, id).success
    /\ objs' = [objs EXCEPT ![id] = destroy(@)]
    /\ claudeSessions' = claudeSessions \ {id}
    /\ removedIds' = removedIds \cup {id}
    /\ UNCHANGED <<storeVars, calls, callSeq, cacheVars, pureVars, tools,
                   restrictions, sessionTools>>

\* Claude.cleanup(): destroySession for every id held, then sessions.clear()
Cleanup ==
  /\ objs' = [id \in DOMAIN objs |->
                IF id \in claudeSessions THEN destroy(objs[id]) ELSE objs[id]]
  /\ claudeSessions' = {}
  /\ removedIds' = removedIds \cup claudeSessions
  /\ UNCHANGED <<storeVars, calls, callSeq, cacheVars, pureVars, tools,
                 restrictions, sessionTools>>

\* sessions are created, run calls that succeed or fail, and are destroyed
RegistryNext ==
  \/ CreateSessionWith({NoTools})
  \/ OverlappingExecute
  \/ \E c \in 1..MaxCalls : ChildExit(c)
  \/ DestroySession
  \/ Cleanup

SpecRegistry == StoreInit /\ [][RegistryNext]_vars

\* ------------------------------------------------------- the whole program
Init == StoreInit \/ ExecInit \/ SanitizeInit \/ TimeoutInit \/ ToolManagerInit
          \/ CacheStoreInit \/ ParserInit \/ ParallelInit \/ CompactInit

Next == StoreNext \/ ExecNext \/ Fork \/ Sanitize \/ DetermineTimeout \/ ToolNext
          \/ CacheNext \/ SiblingNext \/ CreateSession \/ ParseOutput
          \/ ReRegisterSession \/ ParallelExecute \/ OverlappingExecute
          \/ DestroySession \/ Cleanup \/ Compact
          \/ (\E c \in 1..MaxCalls : TimeoutFireKillRefused(c))
          \/ (\E c \in 1..MaxCalls : ExitAfterError(c))

Spec == Init /\ [][Next]_vars

\* ------------------------------------------------------ claims on the store
IsForkStep == forkSeq' = forkSeq + 1

\* the message the fork point names: atMessageId, else the latest message
ForkMessageOf(session, atMessageId) ==
  IF atMessageId # None THEN atMessageId
  ELSE IF Len(session.messages) > 0 THEN Last(session.messages) ELSE None

\* C1: forking session S at its message m_k succeeds for every k, and the
\* history read from the new session is exactly S's first k+1 messages, equal
\* in role and content and in the same order; with atMessageId omitted the new
\* session holds all of S's messages.
C1_ForkCopiesPrefix ==
  [][ /\ \A S \in DOMAIN sessions :
           /\ forkSessionOk(Store, S, None)
           /\ \A i \in 1..Len(sessions[S].messages) :
                forkSessionOk(Store, S, sessions[S].messages[i])
      /\ IsForkStep =>
           LET S == lastFork'.fromSessionId
               F == lastFork'.newSessionId
               at == lastFork'.atMessageId
               source == RoleContent(getConversationHistory(Store, S))
               k1 == IF at = None THEN Len(source)
                     ELSE FindIndexPlus1(sessions[S].messages, at)
               copy == RoleContent(getConversationHistory(Store', F))
           IN /\ at # None => k1 >= 1
              /\ Len(copy) = k1
              /\ copy = Prefix(source, k1)
    ]_vars

C1_Witness ==
  /\ lastFork.newSessionId \in DOMAIN sessions
  /\ lastFork.fromSessionId \in DOMAIN sessions
  /\ lastFork.atMessageId # None
  /\ Len(sessions[lastFork.newSessionId].messages) >= 1
  /\ Len(sessions[lastFork.fromSessionId].messages)
       > Len(sessions[lastFork.newSessionId].messages)

\* the session a step's successful addMessage, forkSession or createCheckpoint
\* was applied to (None for any other step)
StepTarget ==
  IF IsForkStep THEN lastFork'.fromSessionId
  ELSE IF messageIdCounter' = messageIdCounter + 1
         THEN messageIndex'[messageIdCounter'].sessionId
  ELSE IF DOMAIN checkpoints' # DOMAIN checkpoints
         THEN checkpoints'[CHOOSE c \in DOMAIN checkpoints' :
                              c \notin DOMAIN checkpoints].sessionId
  ELSE None

\* C8: once forkSession(S) has created F, no addMessage, forkSession or
\* createCheckpoint applied to one of S, F changes any field of a message
\* record in the other session's list.
C8_NoSharedRecords ==
  [][ \A S \in DOMAIN sessions, F \in DOMAIN sessions :
        (F > NumUserSessions /\ sessions[F].parentId = S) =>
          \A Y \in {S, F} :
            StepTarget = Y =>
              \A X \in {S, F} \ {Y} :
                \A i \in 1..Len(sessions[X].messages) :
                  RecordValue(messageIndex', arrays', sessions[X].messages[i])
                    = RecordValue(messageIndex, arrays, sessions[X].messages[i])
    ]_vars

\* C9: every session's message list is a simple chain: the first record has no
\* parentMessageId, every later record's parentMessageId is the id of the
\* record just before it in the same list, and that predecessor's
\* childMessageIds contains its id.
C9_SimpleChain ==
  \A S \in DOMAIN sessions :
    LET ms == sessions[S].messages
    IN /\ Len(ms) > 0 => messageIndex[ms[1]].parentMessageId = None
       /\ \A i \in 2..Len(ms) :
            /\ messageIndex[ms[i]].parentMessageId = ms[i-1]
            /\ \E j \in 1..Len(arrays[messageIndex[ms[i-1]].childMessageIds]) :
                 arrays[messageIndex[ms[i-1]].childMessageIds][j] = ms[i]

\* C10: a successful forkSession(S, at) leaves S's message list as it was
\* (same records, ids, order, role, content, parentMessageId, childMessageIds);
\* on S it only appends one ForkPoint, sets isForkPoint on the fork message and
\* appends the new session id to S's childIds.
C10_ForkFrame ==
  [][ IsForkStep =>
        LET S == lastFork'.fromSessionId
            F == lastFork'.newSessionId
            fm == ForkMessageOf(sessions[S], lastFork'.atMessageId)
        IN /\ sessions'[S].messages = sessions[S].messages
           /\ \A i \in 1..Len(sessions[S].messages) :
                LET m == sessions[S].messages[i]
                IN RecordValue(messageIndex', arrays', m) =
                     [RecordValue(messageIndex, arrays, m) EXCEPT
                        !.isForkPoint = IF m = fm THEN TRUE ELSE @]
           /\ sessions'[S].forkPoints =
                Append(sessions[S].forkPoints,
                       [messageId |-> fm, originalSessionId |-> S,
                        forkedSessionIds |-> <<F>>])
           /\ sessions'[S].childIds = Append(sessions[S].childIds, F)
           /\ sessions'[S] = [sessions[S] EXCEPT
                                !.forkPoints = sessions'[S].forkPoints,
                                !.childIds = sessions'[S].childIds]
           /\ sessions[S].context.history # None =>
                histories'[sessions[S].context.history]
                  = histories[sessions[S].context.history]
    ]_vars

C10_Witness ==
  /\ lastFork.fromSessionId \in DOMAIN sessions
  /\ lastFork.atMessageId # None
  /\ Len(sessions[lastFork.fromSessionId].messages) >= 2
  /\ lastFork.atMessageId # Last(sessions[lastFork.fromSessionId].messages)
  /\ messageIndex[lastFork.atMessageId].isForkPoint
  /\ Len(sessions[lastFork.fromSessionId].forkPoints) >= 1
  /\ \E i \in 1..Len(sessions[lastFork.fromSessionId].childIds) :
       sessions[lastFork.fromSessionId].childIds[i] = lastFork.newSessionId

\* ------------------------------------------------------ claims on execute()
\* the call whose 'exit' event this step handles, if any
ExitHandled(c) ==
  /\ c \in DOMAIN calls
  /\ c \in DOMAIN calls'
  /\ calls[c].pc = "running"
  /\ calls[c].spawned = "ok"
  /\ calls'[c].pc = "done"

\* C2: when the child exits with code 0 and the timeout timer has not fired,
\* execute() returns a success, and the session's replay list and the store's
\* message list for the session each grow by exactly two messages: the user
\* message holding the caller's prompt, then the assistant message holding the
\* sanitized output; messageCount grows by 2.
C2_SuccessCommitsPair ==
  [][ \A c \in 1..MaxCalls :
        (ExitHandled(c) /\ calls'[c].exitCode = 0 /\ ~calls[c].isTimedOut) =>
          LET id == calls[c].sessionId
              pair == << [role |-> "user", content |-> calls[c].prompt],
                         [role |-> "assistant",
                          content |-> finalOutputOf(calls[c].output)] >>
          IN /\ calls'[c].result.kind = "success"
             /\ objs'[id].messages = objs[id].messages \o pair
             /\ objs'[id].messageCount = objs[id].messageCount + 2
             /\ RoleContent(getConversationHistory(Store', id))
                  = RoleContent(getConversationHistory(Store, id)) \o pair
    ]_vars

C2_Witness ==
  \E c \in DOMAIN calls :
    /\ calls[c].pc = "done"
    /\ calls[c].exitCode = 0
    /\ ~calls[c].isTimedOut
    /\ calls[c].result.kind = "success"
    /\ calls[c].output = <<"y", NL, "Human:", SP, "z">>
    /\ Last(objs[calls[c].sessionId].messages)
         = [role |-> "assistant", content |-> <<"y">>]
    /\ objs[calls[c].sessionId].messageCount >= 2

RECURSIVE OccursInOrder(_, _)
OccursInOrder(text, items) ==
  IF Len(items) = 0 THEN TRUE
  ELSE LET i == IndexOf(text, Head(items))
       IN /\ i # -1
          /\ OccursInOrder(SubstringFrom(text, i + Len(Head(items))),
                           Tail(items))

\* the lines that render the user and assistant messages of a history
Rendered(messages) ==
  LET turns == SelectSeq(messages,
                         LAMBDA m : m.role \in {"user", "assistant"})
  IN [i \in 1..Len(turns) |->
        (IF turns[i].role = "user" THEN <<"Human:", SP>>
                                   ELSE <<"Assistant:", SP>>)
          \o turns[i].content]

\* C4: the payload execute(p) sends on a session with replay history h starts
\* with the system instruction if there is one, holds every user and assistant
\* message of h in stored order as 'Human: <content>' / 'Assistant: <content>'
\* with the content as stored, then 'Human: p', and ends with the 'Assistant:'
\* cue; so the next execute() replays the previous question and its recorded
\* reply before the new question.
C4_PayloadReplaysHistory ==
  [][ callSeq' = callSeq + 1 =>
        LET call == calls'[callSeq']
            obj == objs[call.sessionId]
            payload == call.contextualPrompt
            system == IF Len(obj.systemPrompt) > 0
                        THEN << <<"System:", SP>> \o obj.systemPrompt >>
                        ELSE <<>>
            question == <<"Human:", SP>> \o call.prompt
        IN /\ Len(obj.systemPrompt) > 0 =>
                StartsWith(payload, <<"System:", SP>> \o obj.systemPrompt)
           /\ Len(obj.systemPrompt) = 0 => payload[1] # "System:"
           /\ OccursInOrder(payload,
                            system \o Rendered(obj.messages)
                              \o <<question \o <<NL>>, <<NL, "Assistant:">> >>)
           /\ Last(payload) = "Assistant:"
           /\ SubSeq(payload, Len(payload) - Len(question) - 2, Len(payload))
                = question \o <<NL, NL, "Assistant:">>
    ]_vars

C4_Witness ==
  \E c \in DOMAIN calls :
    /\ c = 2
    /\ Len(objs[calls[c].sessionId].systemPrompt) > 0
    /\ OccursInOrder(calls[c].contextualPrompt,
         << <<"System:", SP, "sys">>, <<"Human:", SP, "q0">>,
            <<"Assistant:", SP, "r0">>, <<"Human:", SP, "q1">>,
            <<"Assistant:", SP, "y">>, <<"Human:", SP, "Run", SP, "q2">>,
            <<"Assistant:">> >>)

\* C5: with a timeout T > 0, when T elapses SIGTERM is sent to the child and
\* the grace timer is started; if the child has still not exited when the
\* grace period elapses, SIGKILL is sent.
C5_EscalatesToSigkill ==
  \A c \in DOMAIN calls :
    /\ calls[c].timeoutHandle = "fired" =>
         /\ calls[c].timeout > 0
         /\ "SIGTERM" \in ExitSignals(calls[c])
         /\ calls[c].killTimeoutHandle # "unset"
    /\ calls[c].killTimeoutHandle = "fired" =>
         "SIGKILL" \in ExitSignals(calls[c])

C7_StubbornChildTimesOut ==
  \A c \in 1..MaxCalls :
    (/\ c \in DOMAIN calls
     /\ calls[c].pc = "running"
     /\ calls[c].stubborn
     /\ calls[c].timeout > 0)
      ~> (/\ c \in DOMAIN calls
          /\ calls[c].pc = "done"
          /\ calls[c].result.kind = "fail"
          /\ calls[c].result.error = "timeout")

\* ------------------------------------------------- claims on session.fork()
\* C11: S.fork(atMessageId?) on any session object S, after any number of
\* successful execute() calls, returns a session F whose replay history,
\* getHistory() and messageCount are exactly S's messages up to and including
\* the fork point, in role, content and order.
C11_ForkedSessionHistory ==
  [][ IsForkStep =>
        LET S == lastFork'.fromSessionId
            F == lastFork'.newSessionId
            k == forkIndexOf(sessions[S], lastFork'.atMessageId)
            expected == Prefix(objs[S].messages, k)
        IN /\ objs'[F].messages = expected
           /\ objs'[F].messageCount = k
           /\ RoleContent(getConversationHistory(Store', F)) = expected
    ]_vars

\* ------------------------------------------------- claims on the cleaning
\* C12: the mapping from the raw output to the stored assistant content is
\* idempotent: sanitize(sanitize(x)) = sanitize(x) for every raw output x.
C12_SanitizeIdempotent ==
  fnOutput.done => finalOutputOf(fnOutput.value) = fnOutput.value

\* a turn-boundary marker: a newline followed by a role label
RoleLabels == {"Human:", "Assistant:", "H:", "A:"}
MarkerPositions(text) ==
  {i \in 2..(Len(text) - 1) : text[i] = NL /\ text[i + 1] \in RoleLabels}

\* C13: for every raw output that holds a turn-boundary marker after its first
\* character, the stored content is the text before the earliest marker, and
\* so holds no turn-boundary marker after position 0.  The markers are looked
\* for in the output as the marker loop receives it (tool-use blocks removed,
\* trimmed); the text before the marker may have lost its role prefix.
C13_CutAtEarliestMarker ==
  LET text == cleanOutputOf(fnInput)
  IN (fnOutput.done /\ MarkerPositions(text) # {}) =>
       LET e == CHOOSE i \in MarkerPositions(text) :
                  \A j \in MarkerPositions(text) : i <= j
           before == Prefix(text, e - 1)
       IN /\ fnOutput.value \in {Trim(before), finalOutputOf(before)}
          /\ MarkerPositions(fnOutput.value) = {}

\* ------------------------------------------------ claims on determineTimeout
\* the duration table of the operation types
TypeTimeout(type) ==
  CASE type = "quick" -> QUICK_REQUEST
    [] type = "text" -> STANDARD_REQUEST
    [] type = "code" -> COMPLEX_REQUEST
    [] type = "file" -> COMPLEX_REQUEST
    [] type = "system" -> TOOL_HEAVY_REQUEST

\* the keyword classes in the order they are tried, with their keywords
KeywordClasses ==
  << [type |-> "quick",
      words |-> {<<"yes", SP, "or", SP, "no">>,
                 <<"true", SP, "or", SP, "false">>, <<"single", SP, "word">>}],
     [type |-> "code",
      words |-> {<<"write", SP, "code">>, <<"implement">>, <<"function">>,
                 <<"class">>, <<"debug">>}],
     [type |-> "file",
      words |-> {<<"edit">>, <<"create", SP, "file">>, <<"modify">>,
                 <<"write", SP, "to">>}],
     [type |-> "system",
      words |-> {<<"run">>, <<"execute">>, <<"bash">>, <<"command">>}] >>

Matches(prompt, k) ==
  \E w \in KeywordClasses[k].words : Includes(ToLowerCase(prompt), w)

\* the first keyword class the prompt matches, 0 when it matches none
MatchedClass(prompt) ==
  IF \E k \in 1..Len(KeywordClasses) : Matches(prompt, k)
    THEN CHOOSE k \in 1..Len(KeywordClasses) :
           Matches(prompt, k) /\ \A j \in 1..(k - 1) : ~Matches(prompt, j)
    ELSE 0

\* C14 as stated: the timeout is the explicit options.timeout if given;
\* otherwise the table value of options.operationType if given; otherwise the
\* table value of the keyword class the prompt matches; otherwise the
\* session's default timeout.
C14_TimeoutPrecedence ==
  fnOutput.done =>
    LET o == fnInput.options
        k == MatchedClass(fnInput.prompt)
    IN /\ o.hasTimeout => fnOutput.value = o.timeout
       /\ (~o.hasTimeout /\ o.operationType # "") =>
            fnOutput.value = TypeTimeout(o.operationType)
       /\ (~o.hasTimeout /\ o.operationType = "" /\ k # 0) =>
            fnOutput.value = TypeTimeout(KeywordClasses[k].type)
       /\ (~o.hasTimeout /\ o.operationType = "" /\ k = 0) =>
            fnOutput.value = fnInput.defaultTimeout

\* C14 amended: as stated, except that with no explicit timeout, no operation
\* type and no keyword match, a non-empty options.tools gives COMPLEX_REQUEST
\* and only an empty or absent options.tools gives the session's default.
C14_TimeoutPrecedenceWithTools ==
  fnOutput.done =>
    LET o == fnInput.options
        k == MatchedClass(fnInput.prompt)
    IN /\ o.hasTimeout => fnOutput.value = o.timeout
       /\ (~o.hasTimeout /\ o.operationType # "") =>
            fnOutput.value = TypeTimeout(o.operationType)
       /\ (~o.hasTimeout /\ o.operationType = "" /\ k # 0) =>
            fnOutput.value = TypeTimeout(KeywordClasses[k].type)
       /\ (~o.hasTimeout /\ o.operationType = "" /\ k = 0
             /\ Len(o.tools) > 0) =>
            fnOutput.value = COMPLEX_REQUEST
       /\ (~o.hasTimeout /\ o.operationType = "" /\ k = 0
             /\ Len(o.tools) = 0) =>
            fnOutput.value = fnInput.defaultTimeout

C14_Witness ==
  /\ fnOutput.done
  /\ ~fnInput.options.hasTimeout
  /\ fnInput.options.operationType = "quick"
  /\ fnInput.prompt = <<"Run", SP, "Implement">>
  /\ Len(fnInput.options.tools) > 0
  /\ fnOutput.value = QUICK_REQUEST

\* ---------------------------------------------------- claims on ToolManager
InSomeRule(type, t) ==
  \E i \in 1..Len(restrictions) :
    restrictions[i].type = type /\ t \in restrictions[i].tools

RuleExists(type) ==
  \E i \in 1..Len(restrictions) : restrictions[i].type = type

\* C15: a registered tool is available exactly when no deny rule names it and
\* either there is no allow rule or some allow rule names it; with
\* allow=[A,B], deny=[B] exactly A is available.
C15_ToolResolution ==
  /\ \A t \in tools :
       isToolAvailable(tools, restrictions, t)
         <=> (~InSomeRule("deny", t)
              /\ (~RuleExists("allow") \/ InSomeRule("allow", t)))
  /\ \A t \in tools :
       t \in getAvailableTools(tools, restrictions)
         <=> isToolAvailable(tools, restrictions, t)
  /\ (/\ tools = {"A", "B"}
      /\ restrictions = << [type |-> "allow", tools |-> {"A", "B"}],
                           [type |-> "deny", tools |-> {"B"}] >>)
       => getAvailableTools(tools, restrictions) = {"A"}

\* ---------------------------------------------------- claims on checkpoints
\* C16: what restoreCheckpoint(c) returns stays equal to the session's context
\* (with context.history) and message list (every field of every record) as
\* they were when createCheckpoint returned c, whatever addMessage or
\* forkSession calls follow.
C16_SnapshotImmutable ==
  [][ \A c \in DOMAIN checkpoints :
        /\ restoreCheckpointOk(checkpoints', c)
        /\ restoreCheckpoint(checkpoints', Store', c)
             = restoreCheckpoint(checkpoints, Store, c)
    ]_vars

\* ----------------------------------------------- claims on the response cache
\* the entries ever cached for session s under prompt p that are valid now
ValidLogged(s, p) ==
  {e \in cacheLog : /\ e.sessionId = s
                    /\ e.prompt = p
                    /\ now - e.timestamp < e.ttl}

\* C17: getCachedResponse(s, p) returns a non-null entry exactly when some
\* entry was cached for session s under prompt p with now - timestamp < ttl
\* at read time; otherwise it returns a success holding null; it never fails.
C17_CacheHitIffValid ==
  \A s \in CacheSessions, p \in CachePrompts :
    LET r == getCachedResponse(responseCache, now, s, p)
    IN /\ r.success
       /\ (r.value # <<>>) <=> (ValidLogged(s, p) # {})
       /\ r.value # <<>> =>
            \E e \in ValidLogged(s, p) :
              r.value[1] = [prompt |-> e.prompt, response |-> e.response,
                            messageId |-> e.messageId,
                            timestamp |-> e.timestamp, ttl |-> e.ttl]
       /\ (fnOutput.done /\ fnOutput.value.sessionId = s
             /\ fnOutput.value.prompt = p) => fnOutput.value.result = r

\* a read that misses although the other session holds a valid entry for the
\* prompt and this session holds an expired one
C17_Witness ==
  /\ fnOutput.done
  /\ fnOutput.value.result.value = <<>>
  /\ \E e \in cacheLog :
       /\ e.sessionId = fnOutput.value.sessionId
       /\ e.prompt = fnOutput.value.prompt
       /\ now - e.timestamp >= e.ttl
  /\ \E e \in cacheLog :
       /\ e.sessionId # fnOutput.value.sessionId
       /\ e.prompt = fnOutput.value.prompt
       /\ now - e.timestamp < e.ttl

\* C18: right after cacheResponse(s, p, r, m, ttl) with ttl > 0,
\* getCachedResponse(s, p) returns the entry with response r and messageId m,
\* whatever cache operations came before.
C18_ReadsBackWhatWasCached ==
  [][ \A e \in cacheLog' \ cacheLog :
        e.ttl > 0 =>
          LET r == getCachedResponse(responseCache', now', e.sessionId, e.prompt)
          IN /\ r.success
             /\ r.value # <<>>
             /\ r.value[1].response = e.response
             /\ r.value[1].messageId = e.messageId
    ]_vars

\* ---------------------------------------------- claims on execute()'s result
\* C19: when the child exits with a non-zero code and the timeout timer has
\* not fired, execute() returns a failure that carries the captured stderr
\* text, or 'No error output captured' when stderr stayed empty, and the
\* invoked command.
C19_NonZeroExitCarriesStderrAndCommand ==
  \A c \in DOMAIN calls :
    (/\ calls[c].pc = "done"
     /\ calls[c].spawned = "ok"
     /\ calls[c].exitCode \notin {0, NoCode}
     /\ ~calls[c].isTimedOut) =>
      /\ calls[c].result.kind = "fail"
      /\ Includes(errorMessage(calls[c].result),
                  IF Len(calls[c].error) = 0
                    THEN <<"No error output captured">>
                    ELSE calls[c].error)
      /\ Includes(errorMessage(calls[c].result), invokedCommand)

\* the terminal outcome of a call, read off the events its handlers saw
Completed(call) ==
  call.pc = "done" /\ call.spawned = "ok" /\ call.exitCode = 0
    /\ ~call.isTimedOut

TimedOut(call) == call.pc = "done" /\ call.spawned = "ok" /\ call.isTimedOut

Errored(call) ==
  \/ call.pc = "done" /\ call.spawned # "ok"
  \/ call.pc = "done" /\ call.spawned = "ok" /\ call.exitCode # 0
       /\ ~call.isTimedOut

\* the result fits the outcome: a result exists exactly when the call has
\* ended, it is a success for Completed and a failure for the others, and
\* the three outcomes exclude one another
OneResultPerOutcome ==
  \A c \in DOMAIN calls :
    LET call == calls[c]
    IN /\ (call.result.kind # "pending") <=> (call.pc = "done")
       /\ call.result.kind \in {"pending", "success", "fail"}
       /\ call.spawned = "throws" =>
            call.result.kind = "fail" /\ call.result.error = "spawn"
       /\ (call.pc = "done" /\ call.spawned = "failed") =>
            call.result.kind = "fail" /\ call.result.error = "spawn"
       /\ Completed(call) => call.result.kind = "success"
       /\ TimedOut(call) =>
            call.result.kind = "fail" /\ call.result.error = "timeout"
       /\ (Errored(call) /\ call.spawned = "ok") =>
            call.result.kind = "fail" /\ call.result.error = "exit"
       /\ call.pc = "done" =>
            Cardinality({o \in {"Completed", "TimedOut", "Errored"} :
                           \/ o = "Completed" /\ Completed(call)
                           \/ o = "TimedOut" /\ TimedOut(call)
                           \/ o = "Errored" /\ Errored(call)}) = 1

\* C20: execute() never throws and its promise never rejects: when spawn
\* throws, the child emits 'error', the child exits with a non-zero code, the
\* timeout elapses, or the child exits with code 0, the caller receives
\* exactly one result, a failure in the first four cases and a success in the
\* last; Completed, TimedOut and Errored exclude one another.  The timeout is
\* taken on a child that ends when it is sent SIGKILL.
C20_OneResultForEveryOutcome ==
  /\ []OneResultPerOutcome
  /\ \A c \in 1..MaxCalls :
       (c \in DOMAIN calls /\ calls[c].isTimedOut /\ calls[c].stubborn)
         ~> (c \in DOMAIN calls /\ calls[c].result.kind = "fail")

\* ------------------------------------------- claims on the store's failures
\* C21: addMessage, forkSession, getConversationHistory and createCheckpoint
\* with an unknown session id, forkSession with a message id that is not in
\* the source session's own list, and restoreCheckpoint with an unknown
\* checkpoint id return a failure and leave the whole store unchanged.
C21_FailuresLeaveStoreUnchanged ==
  /\ \A sessionId \in SessionIds \ DOMAIN sessions :
       /\ ~addMessageOk(Store, sessionId)
       /\ \A message \in StoreMessages(messageIdCounter + 1) :
            addMessage(Store, sessionId, message) = Store
       /\ \A atMessageId \in 0..(messageIdCounter + 1) :
            /\ ~forkSessionOk(Store, sessionId, atMessageId)
            /\ forkSession(Store, sessionId, atMessageId,
                           ForkSessionId(forkSeq + 1)) = Store
       /\ ~getConversationHistoryOk(Store, sessionId)
       /\ ~createCheckpointOk(Store, sessionId)
  /\ \A S \in DOMAIN sessions :
       \A atMessageId \in 1..(messageIdCounter + 1) :
         (\A i \in 1..Len(sessions[S].messages) :
            sessions[S].messages[i] # atMessageId) =>
           /\ ~forkSessionOk(Store, S, atMessageId)
           /\ forkSession(Store, S, atMessageId,
                          ForkSessionId(forkSeq + 1)) = Store
  /\ \A checkpointId \in 1..(MaxCheckpoints + 1) :
       checkpointId \notin DOMAIN checkpoints =>
         ~restoreCheckpointOk(checkpoints, checkpointId)

\* a session asked to fork at a message that exists, but in another session
C21_Witness ==
  \E S \in DOMAIN sessions, F \in DOMAIN sessions :
    /\ S # F
    /\ Len(sessions[F].messages) > 0
    /\ \A i \in 1..Len(sessions[S].messages) :
         sessions[S].messages[i] # sessions[F].messages[1]
    /\ Len(sessions[S].messages) > 0
    /\ ~forkSessionOk(Store, S, sessions[F].messages[1])

\* C22: saveSession(id, parentId) with a parentId that is not a registered
\* session fails with NotFound and registers no session; with a registered
\* parentId it succeeds and id is appended to the parent's childIds.
C22_SaveSessionChecksParent ==
  \A id \in UserSessionIds : \A parentId \in SessionIds \ {id} :
    LET after == saveSession(Store, id, parentId, NoContext)
    IN IF parentId \notin DOMAIN sessions
         THEN /\ ~saveSessionOk(Store, id, parentId)
              /\ DOMAIN after.sessions = DOMAIN sessions
         ELSE /\ saveSessionOk(Store, id, parentId)
              /\ after.sessions[parentId].childIds
                   = Append(sessions[parentId].childIds, id)

\* -------------------------------------------------- claims on fork points
\* the fork points of the session that record the fork lastFork describes
ForkPointsOf(session) ==
  {i \in 1..Len(session.forkPoints) :
     /\ session.forkPoints[i].originalSessionId = lastFork.fromSessionId
     /\ \E j \in 1..Len(session.forkPoints[i].forkedSessionIds) :
          session.forkPoints[i].forkedSessionIds[j] = lastFork.newSessionId
     /\ lastFork.atMessageId # None =>
          session.forkPoints[i].messageId = lastFork.atMessageId}

\* C23: after a successful fork of S at message m giving F, made with
\* SessionStore.forkSession or with session.fork(), m.isForkPoint is true and
\* a ForkPoint (messageId m.id, originalSessionId S, forkedSessionIds
\* containing F) is in the fork points of S and of F, then and ever after;
\* n forks of a message leave n such fork points on S.  The message m is the
\* one the fork call names.
C23_ForkPointOnBothSessions ==
  (lastFork # NoFork /\ lastFork.atMessageId # None) =>
    LET S == sessions[lastFork.fromSessionId]
        F == sessions[lastFork.newSessionId]
    IN /\ ForkPointsOf(S) # {}
       /\ ForkPointsOf(F) # {}
       /\ \A i \in ForkPointsOf(S) :
            /\ S.forkPoints[i].messageId # None
            /\ messageIndex[S.forkPoints[i].messageId].isForkPoint
            /\ \E j \in ForkPointsOf(F) : F.forkPoints[j] = S.forkPoints[i]
       /\ Cardinality(ForkPointsOf(S)) = forkSeq

\* ------------------------------------------------------ claims on siblings
\* the position (from 1) in S's list of the message a fork point names
ForkPosition(S, forkPoint) ==
  FindIndexPlus1(sessions[S].messages, forkPoint.messageId)

\* what a session's context.history holds
ContextHistory(st, sessionId) ==
  LET h == st.sessions[sessionId].context.history
  IN IF h \in 1..Len(st.histories) THEN st.histories[h] ELSE <<>>

\* forks of one session at two different messages agree on the common prefix
SiblingsSharePrefix ==
  \A S \in DOMAIN sessions :
    \A a \in 1..Len(sessions[S].forkPoints),
       b \in 1..Len(sessions[S].forkPoints) :
      LET fa == sessions[S].forkPoints[a]
          fb == sessions[S].forkPoints[b]
          i == ForkPosition(S, fa)
          j == ForkPosition(S, fb)
          F1 == fa.forkedSessionIds[1]
          F2 == fb.forkedSessionIds[1]
      IN (fa.originalSessionId = S /\ fb.originalSessionId = S
            /\ i >= 1 /\ j > i) =>
           /\ Len(sessions[F1].messages) >= i
           /\ Len(sessions[F2].messages) >= i
           /\ Prefix(RoleContent(getConversationHistory(Store, F1)), i)
                = Prefix(RoleContent(getConversationHistory(Store, F2)), i)
           /\ Prefix(RoleContent(getConversationHistory(Store, F1)), i)
                = Prefix(RoleContent(getConversationHistory(Store, S)), i)

\* C24: when S is forked at message i giving F1 and at message j > i giving
\* F2, the histories of F1 and F2 agree in role and content on positions
\* 0..i, and a message added afterwards to one of S, F1, F2 appears in the
\* history of that session only.
C24_SiblingsAgreeAndDiverge ==
  [][ /\ SiblingsSharePrefix'
      /\ (messageIdCounter' = messageIdCounter + 1 /\ forkSeq' = forkSeq) =>
           LET X == messageIndex'[messageIdCounter'].sessionId
               added == [role |-> messageIndex'[messageIdCounter'].role,
                         content |-> messageIndex'[messageIdCounter'].content]
           IN /\ RoleContent(getConversationHistory(Store', X))
                   = Append(RoleContent(getConversationHistory(Store, X)),
                            added)
              /\ ContextHistory(Store', X)
                   = Append(ContextHistory(Store, X), added)
              /\ \A Y \in DOMAIN sessions \ {X} :
                   /\ RoleContent(getConversationHistory(Store', Y))
                        = RoleContent(getConversationHistory(Store, Y))
                   /\ ContextHistory(Store', Y) = ContextHistory(Store, Y)
    ]_vars

\* S forked at its first and at its second message, and a message added to
\* the first fork afterwards
C24_Witness ==
  \E S \in DOMAIN sessions :
    /\ Len(sessions[S].forkPoints) = 2
    /\ ForkPosition(S, sessions[S].forkPoints[1]) = 1
    /\ ForkPosition(S, sessions[S].forkPoints[2]) = 2
    /\ Len(sessions[sessions[S].forkPoints[1].forkedSessionIds[1]].messages) = 2
    /\ Len(sessions[sessions[S].forkPoints[2].forkedSessionIds[1]].messages) = 2

\* ------------------------------------------------ claims on tool restrictions
\* C25: tool restrictions are per session: the tool flags of an execute() call
\* on session A are those of the restrictions createSession was given for A,
\* and creating another session B, with or without restrictions, never
\* changes the flags of later execute() calls on A.
C25_RestrictionsPerSession ==
  \A c \in DOMAIN calls :
    calls[c].sessionId \in DOMAIN sessionTools =>
      calls[c].args = <<"-p", "--model", "DEFAULT_CLAUDE_MODEL">>
                        \o getCliFlags(sessionTools[calls[c].sessionId].rules)

\* the flag and its list of names stand in the flags at positions i, i + 1
HasGroup(flags, flag, names) ==
  \E i \in {j \in 1..Len(flags) : j % 2 = 1} :
    flags[i] = flag /\ flags[i + 1] = names

\* C26: getCliFlags() returns no flags when no restrictions are applied;
\* otherwise a denied-tools group with every tool a deny rule names and, only
\* when an allow-list is active, an allowed-tools group with the allowed
\* tools; execute() appends exactly these flags after -p --model <model>.
C26_CliFlags ==
  LET flags == getCliFlags(restrictions)
      allowed == {t \in ToolNames : InSomeRule("allow", t)}
      denied == {t \in ToolNames : InSomeRule("deny", t)}
  IN /\ Len(restrictions) = 0 => flags = <<>>
     /\ denied # {} <=> HasGroup(flags, "--disallowedTools", denied)
     /\ allowed # {} <=> HasGroup(flags, "--allowedTools", allowed)
     /\ Len(flags) = 2 * (  (IF denied # {} THEN 1 ELSE 0)
                          + (IF allowed # {} THEN 1 ELSE 0))
     /\ executeArgs(restrictions)
          = <<"-p", "--model", "DEFAULT_CLAUDE_MODEL">> \o flags

C26_Witness ==
  /\ restrictions = << [type |-> "allow", tools |-> {"A", "B"}],
                       [type |-> "deny", tools |-> {"B"}] >>
  /\ getCliFlags(restrictions)
       = <<"--allowedTools", {"A", "B"}, "--disallowedTools", {"B"}>>

\* the closing tag that ends a block opened at position i of the buffer s
BlockEnd(s, i) ==
  CHOOSE j \in (i + 1)..Len(s) :
    /\ s[j] = "</tool_use>"
    /\ \A k \in (i + 1)..(j - 1) : s[k] # "</tool_use>"

\* position i opens a tool-use block: an opening tag with a closing tag
\* after it that does not lie inside a block opened before it
RECURSIVE OpensBlock(_, _)
OpensBlock(s, i) ==
  /\ s[i] = "<tool_use>"
  /\ \E j \in (i + 1)..Len(s) : s[j] = "</tool_use>"
  /\ \A h \in 1..(i - 1) : OpensBlock(s, h) => BlockEnd(s, h) < i

\* the opening positions of the blocks that have a name and a payload that
\* parses, in ascending order
RECURSIVE Ascending(_)
Ascending(S) ==
  IF S = {} THEN <<>>
  ELSE LET m == CHOOSE a \in S : \A b \in S : a <= b
       IN <<m>> \o Ascending(S \ {m})

BlockContent(s, i) == SubSeq(s, i + 1, BlockEnd(s, i) - 1)

WellFormedBlocks(s) ==
  Ascending({i \in 1..Len(s) :
               /\ OpensBlock(s, i)
               /\ ToolNameMatches(BlockContent(s, i))
               /\ ParsesAsJson(ParametersMatch(BlockContent(s, i)))})

\* the name written in the block opened at i
WrittenName(s, i) ==
  IF \E k \in (i + 1)..(BlockEnd(s, i) - 1) : s[k] = "write"
    THEN <<"write">> ELSE <<"read">>

\* C27: parseToolUses returns, in order of appearance, exactly one record
\* for each tool-use block that has a tool name and a payload that parses
\* and none for any other block, and no closed tool-use block is left in the
\* extracted content.
C27_ToolUsesParsed ==
  fnOutput.done =>
    LET blocks == WellFormedBlocks(fnInput)
        toolUses == fnOutput.value.toolUses
        content == fnOutput.value.content
    IN /\ Len(toolUses) = Len(blocks)
       /\ \A k \in 1..Len(blocks) :
            toolUses[k].toolName = WrittenName(fnInput, blocks[k])
       /\ ~\E i \in 1..Len(content), j \in 1..Len(content) :
            i < j /\ content[i] = "<tool_use>" /\ content[j] = "</tool_use>"

C27_Witness ==
  /\ fnOutput.done
  /\ Len(fnOutput.value.toolUses) = 2
  /\ fnOutput.value.toolUses[1].toolName = <<"write">>
  /\ fnOutput.value.toolUses[2].toolName = <<"read">>
  /\ Cardinality({i \in 1..Len(fnInput) : OpensBlock(fnInput, i)}) = 3
  /\ fnOutput.value.content = <<>>

\* C28: a call with an explicit timeout of exactly 0 arms no timer: no signal
\* is ever sent by the call, and its result is the one the child's exit or
\* error event determines.
C28_ZeroTimeoutArmsNoTimer ==
  \A c \in DOMAIN calls :
    (calls[c].timeout = 0 /\ calls[c].spawned # "throws") =>
      /\ calls[c].timeoutHandle = "unset"
      /\ calls[c].killTimeoutHandle = "unset"
      /\ ~calls[c].isTimedOut
      /\ ~calls[c].killed
      /\ calls[c].signals = <<>>
      /\ calls[c].pc = "done" =>
           IF calls[c].spawned = "failed" THEN calls[c].result = FailSpawn
           ELSE /\ calls[c].exitCode \in {0, 1}
                /\ calls[c].exitSignal = ""
                /\ calls[c].result
                     = IF calls[c].exitCode = 0
                         THEN Success(cleanOutputOf(calls[c].output),
                                      parseToolUses(calls[c].output))
                         ELSE FailExit(calls[c].exitCode, calls[c].error)

C28_Witness ==
  \E c \in DOMAIN calls :
    /\ calls[c].timeout = 0
    /\ calls[c].spawned = "ok"
    /\ calls[c].pc = "done"
    /\ calls[c].exitCode = 0
    /\ calls[c].output # <<>>
    /\ calls[c].result.kind = "success"

\* the places of the message lists: session and position
MessagePlaces(S) ==
  UNION {{<<s, i>> : i \in 1..Len(S[s].messages)} : s \in DOMAIN S}

IdAt(S, place) == S[place[1]].messages[place[2]]

\* the places a step has written an id to
PlacesWritten ==
  {place \in MessagePlaces(sessions') :
     \/ place \notin MessagePlaces(sessions)
     \/ IdAt(sessions', place) # IdAt(sessions, place)}

\* C29: every MessageRecord id addMessage or forkSession assigns differs from
\* every id the store has assigned before, across all sessions and over any
\* sequence of operations, re-registering a session id included.  The ids
\* assigned so far are the keys of messageIndex, which never loses a key.
C29_IdsNeverReused ==
  [][ /\ DOMAIN messageIndex \subseteq DOMAIN messageIndex'
      /\ \A place \in PlacesWritten :
           /\ IdAt(sessions', place) \notin DOMAIN messageIndex
           /\ IdAt(sessions', place) \in DOMAIN messageIndex'
      /\ \A a \in MessagePlaces(sessions'), b \in MessagePlaces(sessions') :
           a # b => IdAt(sessions', a) # IdAt(sessions', b)
    ]_vars

C29_Witness ==
  /\ saveSeq = 2
  /\ forkSeq = 2
  /\ sessions[SiblingSource].messages # <<>>
  /\ \A s \in DOMAIN sessions : Len(sessions[s].messages) > 0
  /\ \E id \in DOMAIN messageIndex :
       \A place \in MessagePlaces(sessions) : IdAt(sessions, place) # id

\* the user/assistant pair the step commits for the session, if the step
\* handles the exit of a successful call of the session
PairCommitted(id) ==
  IF \E c \in 1..MaxCalls :
       /\ ExitHandled(c)
       /\ calls[c].sessionId = id
       /\ calls'[c].result.kind = "success"
    THEN LET c == CHOOSE d \in 1..MaxCalls :
                    ExitHandled(d) /\ calls[d].sessionId = id
         IN << [role |-> "user", content |-> calls[c].prompt],
               [role |-> "assistant",
                content |-> finalOutputOf(calls[c].output)] >>
    ELSE <<>>

\* C30: when execute() calls on different sessions of one store overlap,
\* then for every interleaving of their exits each session's history holds
\* exactly its own user/assistant pairs, in order, and no message of another
\* session: every step appends to the replay list and to the store's history
\* of a session the pair of the session's own call that ended in the step,
\* and nothing else.
C30_ParallelSessionsKeepOwnPairs ==
  [][ \A id \in DOMAIN objs :
        /\ objs'[id].messages = objs[id].messages \o PairCommitted(id)
        /\ RoleContent(getConversationHistory(Store', id))
             = RoleContent(getConversationHistory(Store, id))
                 \o PairCommitted(id)
        /\ \A i \in 1..Len(sessions'[id].messages) :
             messageIndex'[sessions'[id].messages[i]].sessionId = id
    ]_vars

C30_Witness ==
  /\ \A id \in DOMAIN objs :
       /\ Len(objs[id].messages) = 2
       /\ Len(sessions[id].messages) = 2
  /\ objs[1].messages[1].content = PromptOf(1)
  /\ objs[2].messages[1].content = PromptOf(2)
  /\ sessions[2].messages[1] < sessions[1].messages[1]

\* -------------------------------------- claims on calls of one session
\* the records of the session form a simple chain: each has its predecessor
\* as parent and its successor as only child
LinearChain(st, id) ==
  LET msgs == st.sessions[id].messages
  IN \A i \in 1..Len(msgs) :
       /\ st.messageIndex[msgs[i]].parentMessageId
            = IF i = 1 THEN None ELSE msgs[i - 1]
       /\ st.arrays[st.messageIndex[msgs[i]].childMessageIds]
            = IF i < Len(msgs) THEN <<msgs[i + 1]>> ELSE <<>>

\* two calls of one session overlapped and both were committed: the pair of
\* the later call stands before the pair of the earlier call
OverlapCommitted ==
  \E c \in DOMAIN calls, d \in DOMAIN calls :
    /\ c < d
    /\ calls[c].sessionId = calls[d].sessionId
    /\ calls[c].result.kind = "success"
    /\ calls[d].result.kind = "success"
    /\ LET msgs == objs[calls[c].sessionId].messages
       IN \E i \in 1..Len(msgs), j \in 1..Len(msgs) :
            /\ i < j
            /\ msgs[i] = [role |-> "user", content |-> calls[d].prompt]
            /\ msgs[j] = [role |-> "user", content |-> calls[c].prompt]

\* the chain of the session is broken or a user message is not followed by a
\* reply
BrokenChain ==
  \E id \in DOMAIN objs :
    \/ ~LinearChain(Store, id)
    \/ \E i \in 1..Len(objs[id].messages) :
         /\ objs[id].messages[i].role = "user"
         /\ \/ i = Len(objs[id].messages)
            \/ objs[id].messages[i + 1].role # "assistant"

WithoutExpired(entries) ==
  SelectSeq(entries, LAMBDA c : ~(now - c.timestamp >= c.ttl))

SameReads(cache) ==
  \A s \in CacheSessions, p \in CachePrompts :
    getCachedResponse(cache, now, s, p)
      = getCachedResponse(responseCache, now, s, p)

\* C32: pruneCache(s) removes from the cache of s exactly the entries with
\* now - timestamp >= ttl and leaves every other entry, of s and of all other
\* sessions, in place and in order; pruneCache() does the same for every
\* session; getCachedResponse returns the same for every session and prompt
\* right after a prune as right before it.
C32_PruneRemovesExpiredOnly ==
  /\ \A s \in CacheSessions :
       LET pruned == pruneCacheOf(responseCache, now, s)
       IN /\ sessionCacheOf(pruned, s)
               = WithoutExpired(sessionCacheOf(responseCache, s))
          /\ \A o \in CacheSessions \ {s} :
               sessionCacheOf(pruned, o) = sessionCacheOf(responseCache, o)
          /\ SameReads(pruned)
  /\ LET pruned == pruneCacheAll(responseCache, now)
     IN /\ \A s \in CacheSessions :
             sessionCacheOf(pruned, s)
               = WithoutExpired(sessionCacheOf(responseCache, s))
        /\ SameReads(pruned)

\* a prune has removed an expired entry of a session and kept a valid one
C32_Witness ==
  \E s \in CacheSessions :
    /\ Len(sessionCacheOf(responseCache, s)) = 1
    /\ \E e \in cacheLog : e.sessionId = s /\ now - e.timestamp >= e.ttl
    /\ \E e \in cacheLog : e.sessionId = s /\ now - e.timestamp < e.ttl
    /\ WithoutExpired(sessionCacheOf(responseCache, s))
         = sessionCacheOf(responseCache, s)

\* ------------------------------------------ claims on the session registry
\* restoreSession succeeds for exactly the ids createSession returned that
\* were not removed since and whose session is not terminated or in error;
\* destroySession fails with 'not found' for an id that was never returned
\* or was removed
RegistryAnswers ==
  \A id \in ClaudeSessionIds :
    /\ restoreSession(claudeSessions, objs, id).success
         <=> /\ id \in DOMAIN sessionTools
             /\ id \notin removedIds
             /\ objs[id].status \notin {"terminated", "error"}
    /\ (id \notin DOMAIN sessionTools \/ id \in removedIds)
         => destroySessionResult(claudeSessions, id) = NotFound

\* C33: restoreSession(id) succeeds if and only if id was returned by
\* createSession on this instance, the session was not removed since by
\* destroySession or cleanup, and its status is neither 'terminated' nor
\* 'error'; destroySession on an unknown or destroyed id fails with 'not
\* found'; after cleanup() restoreSession fails for every id created before.
C33_RestoreIffHeldAndActive ==
  [][ /\ RegistryAnswers
      /\ RegistryAnswers'
      /\ (removedIds' = removedIds \cup claudeSessions /\ claudeSessions' = {})
           => \A id \in DOMAIN sessionTools :
                ~restoreSession(claudeSessions', objs', id).success
    ]_vars

\* one session is held and in error and one was removed, after calls on both
C33_Witness ==
  \E b \in claudeSessions, c \in removedIds :
    /\ objs[b].status = "error"
    /\ objs[c].status = "terminated"
    /\ Len(objs[c].messages) = 2
    /\ restoreSession(claudeSessions, objs, b) = NotActive
    /\ restoreSession(claudeSessions, objs, c) = NotFound
    /\ destroySessionResult(claudeSessions, c) = NotFound

\* ----------------------------------- claims on results and the history
\* the step delivers the result of call c to its caller
ResultDelivered(c) ==
  /\ c \in DOMAIN calls'
  /\ c \in DOMAIN calls => calls[c].result.kind = "pending"
  /\ calls'[c].result.kind # "pending"

\* the pair of the call of the session whose success the step delivers
PairDelivered(id) ==
  LET delivered == {c \in 1..MaxCalls :
                      /\ ResultDelivered(c)
                      /\ calls'[c].sessionId = id
                      /\ calls'[c].result.kind = "success"}
  IN IF delivered = {} THEN <<>>
     ELSE LET c == CHOOSE d \in delivered : TRUE
          IN << [role |-> "user", content |-> calls'[c].prompt],
                [role |-> "assistant",
                 content |-> finalOutputOf(calls'[c].output)] >>

\* C34: a session's history (its replay list and the store's message list)
\* is changed by an execute() call if and only if the result delivered to
\* the caller is a success, for every order of the child's 'error' event,
\* 'exit' event and timer expiries: a step that delivers a success adds the
\* call's user/assistant pair, and every other step adds nothing.
C34_HistoryChangesIffSuccess ==
  [][ \A id \in DOMAIN objs :
        /\ objs'[id].messages = objs[id].messages \o PairDelivered(id)
        /\ RoleContent(getConversationHistory(Store', id))
             = RoleContent(getConversationHistory(Store, id))
                 \o PairDelivered(id)
    ]_vars

\* a call whose 'error' event delivered a failure has had its 'exit' event
\* with code 0 and buffered output handled, and the history is still empty
C34_Witness ==
  \E c \in DOMAIN calls :
    /\ calls[c].pc = "done"
    /\ calls[c].result = FailSpawn
    /\ calls[c].exitCode = 0
    /\ calls[c].output # <<>>
    /\ calls[c].killTimeoutHandle = "cleared"
    /\ sessions[calls[c].sessionId].messages = <<>>

\* ------------------------------------------------ claims on the output returned
\* C35: on every successful execute(), the output string returned to the
\* caller equals the content of the assistant message committed to the
\* session's history for that call, in the replay list and in the store.
C35_ReturnedOutputIsStoredContent ==
  [][ \A c \in 1..MaxCalls :
        (ResultDelivered(c) /\ calls'[c].result.kind = "success") =>
          LET id == calls'[c].sessionId
              replayed == objs'[id].messages
              stored == getConversationHistory(Store', id)
          IN /\ replayed[Len(replayed)].role = "assistant"
             /\ replayed[Len(replayed)].content = calls'[c].result.output
             /\ stored[Len(stored)].content = calls'[c].result.output
    ]_vars

\* ------------------------------------------------ claims on the history mirror
\* C36: for every session in the store, after any sequence of operations
\* (constructing a session object with or without an initial history,
\* addMessage, forkSession, session.fork(), successful execute()), the
\* session's context.history has the same length and the same role/content
\* sequence as the session's message list.
C36_ContextHistoryMirrorsMessages ==
  \A id \in DOMAIN sessions :
    RoleContent(ContextHistory(Store, id))
      = RoleContent(getConversationHistory(Store, id))

\* ------------------------------------------------ claims on the session status
\* C37: once destroy() has set a session's status to 'terminated', no later
\* operation on that session (execute() with any outcome and the other
\* methods) changes the status: 'terminated' is absorbing.
C37_TerminatedIsAbsorbing ==
  [][ \A id \in DOMAIN objs :
        objs[id].status = "terminated" => objs'[id].status = "terminated"
    ]_vars

\* ------------------------------------------------ claims on the session tree
\* C38: in every reachable store state each session's childIds holds every
\* child session id exactly once: a session created from parent P by
\* forkSession or by session.fork() stands exactly once in P's childIds and
\* has parentId P.
C38_ChildIdsHoldEachChildOnce ==
  \A p \in DOMAIN sessions :
    LET childIds == sessions[p].childIds
    IN /\ \A i, j \in 1..Len(childIds) : childIds[i] = childIds[j] => i = j
       /\ {childIds[i] : i \in 1..Len(childIds)}
            = {s \in DOMAIN sessions : sessions[s].parentId = p}

\* ------------------------------------------------ claims on the compiled flags
\* the names that follow the flag in the flags, none when the flag is absent
GroupOf(flags, flag) ==
  UNION {flags[i + 1] : i \in {j \in 1..Len(flags) :
                                 j % 2 = 1 /\ flags[j] = flag}}

\* C39: for every list of allow/deny rules, no tool name stands in both the
\* allowed-tools group and the denied-tools group getCliFlags() returns, and
\* a tool name stands in the allowed-tools group only if no deny rule names
\* it.
C39_DenyWinsInCliFlags ==
  LET flags == getCliFlags(restrictions)
      allowedGroup == GroupOf(flags, "--allowedTools")
      deniedGroup == GroupOf(flags, "--disallowedTools")
  IN /\ allowedGroup \cap deniedGroup = {}
     /\ \A t \in allowedGroup : ~InSomeRule("deny", t)

\* ------------------------------------------------ claims on compact
\* C40: compact(strategy) never increases the number of messages the session
\* replays, for each strategy, for every history (histories with system-role
\* messages included) and for any number of repeated compact calls.
C40_CompactNeverGrows ==
  [][ \A id \in DOMAIN objs :
        Len(objs'[id].messages) <= Len(objs[id].messages)
    ]_vars

====
